---- MODULE Spec2Model ----
(***************************************************************************)
(* stream-capture: the playlist-tracking and segment-acquisition engine.   *)
(*                                                                         *)
(*   internal/hls        ParsePlaylist, GetLastSegment,                    *)
(*                       FindSegmentBySequence, extractSequenceFromURL     *)
(*   internal/downloader Manager (DownloadSegment, MergeSegments, Cleanup) *)
(*   cmd                 executeCapture, the capture controller            *)
(*                                                                         *)
(* The specifications share the definitions:                               *)
(*   Spec             one capture run of executeCapture or main            *)
(*   SpecFair         the same, every call of the run returning            *)
(*   SpecStore        the Manager driven through its methods in any order  *)
(*   SpecRunAndStore  both of the above                                    *)
(*   SpecParse        ParsePlaylist on a playlist document                 *)
(*   SpecConc         the Manager called by two goroutines at once         *)
(***************************************************************************)
EXTENDS Integers, Sequences, FiniteSets, TLC

(***************************************************************************)
(* Bounds of the model.                                                    *)
(***************************************************************************)
\* largest sequence number a playlist line can carry
MaxSeq == 2
\* largest number of lines of a playlist document the origin serves
MaxLines == 2
\* largest segment count the operator asks for
MaxCount == 2
\* number of steps (Manager calls, file removals) SpecStore follows
MaxCalls == 3
\* largest sequence number SpecStore hands to the Manager
MaxStoreSeq == 1
\* consecutive failed polls that are counted (the count saturates)
MaxPolls == 2

(***************************************************************************)
(* Program constants.                                                      *)
(***************************************************************************)
\* capture.go:135  retryCount%5
ProgressEvery == 5

(***************************************************************************)
(* Playlist documents.  A line is described by what the parser's tests on  *)
(* it can see:                                                             *)
(*   mseq  the number matched by #EXT-X-MEDIA-SEQUENCE:(\d+), or None      *)
(*   inf   the number matched by #EXTINF:([\d.]+), or None                 *)
(*   blank the trimmed line is ""                                          *)
(*   hash  the trimmed line starts with "#"                                *)
(*   tok   the number of the leftmost match of _(\d+)\.ts in the line, or   *)
(*         None                                                            *)
(*   tokErr strconv.Atoi fails on the digits matched (value out of range)  *)
(*   tail  the digits d when the final path component of the reference     *)
(*         ends in _d.ts, or None                                          *)
(*   bad   base.Parse(line) fails                                          *)
(*   name  the rest of the reference, which tells two URLs apart           *)
(***************************************************************************)
None == -1

\* stands for a digit run that does not fit an int
Huge == -2

MediaSeqLine(n) ==
    [mseq |-> n, inf |-> None, blank |-> FALSE, hash |-> TRUE,
     tok |-> None, tokErr |-> FALSE, tail |-> None, bad |-> FALSE, name |-> "-"]

ExtInfLine(d) ==
    [mseq |-> None, inf |-> d, blank |-> FALSE, hash |-> TRUE,
     tok |-> None, tokErr |-> FALSE, tail |-> None, bad |-> FALSE, name |-> "-"]

BlankLine ==
    [mseq |-> None, inf |-> None, blank |-> TRUE, hash |-> FALSE,
     tok |-> None, tokErr |-> FALSE, tail |-> None, bad |-> FALSE, name |-> "-"]

CommentLine ==
    [mseq |-> None, inf |-> None, blank |-> FALSE, hash |-> TRUE,
     tok |-> None, tokErr |-> FALSE, tail |-> None, bad |-> FALSE, name |-> "-"]

\* #EXT-X-ENDLIST, the origin's mark that the stream has ended: to the
\* parser a comment line like any other
EndListLine ==
    [mseq |-> None, inf |-> None, blank |-> FALSE, hash |-> TRUE,
     tok |-> None, tokErr |-> FALSE, tail |-> None, bad |-> FALSE,
     name |-> "#EXT-X-ENDLIST"]

\* a reference such as seg.ts (t = None) or master_1440_primary_719721.ts
RefLine(nm, t) ==
    [mseq |-> None, inf |-> None, blank |-> FALSE, hash |-> FALSE,
     tok |-> t, tokErr |-> FALSE, tail |-> t, bad |-> FALSE, name |-> nm]

\* a reference whose leftmost match of _(\d+)\.ts is not the end of its
\* final path component: live_1.ts/seg.ts (t = 1, e = None),
\* seg_0.ts_1.ts (t = 0, e = 1)
OddRefLine(nm, t, e) ==
    [mseq |-> None, inf |-> None, blank |-> FALSE, hash |-> FALSE,
     tok |-> t, tokErr |-> FALSE, tail |-> e, bad |-> FALSE, name |-> nm]

\* a reference such as seg_99999999999999999999.ts
HugeRefLine ==
    [mseq |-> None, inf |-> None, blank |-> FALSE, hash |-> FALSE,
     tok |-> Huge, tokErr |-> TRUE, tail |-> Huge, bad |-> FALSE, name |-> "huge"]

BadRefLine ==
    [mseq |-> None, inf |-> None, blank |-> FALSE, hash |-> FALSE,
     tok |-> None, tokErr |-> FALSE, tail |-> None, bad |-> TRUE, name |-> "bad"]

\* a reference in which mediaSeqRegex finds a match after the first
\* character, such as seg.ts?tag=#EXT-X-MEDIA-SEQUENCE:2
MediaSeqInRefLine(nm, n) ==
    [mseq |-> n, inf |-> None, blank |-> FALSE, hash |-> FALSE,
     tok |-> None, tokErr |-> FALSE, tail |-> None, bad |-> FALSE, name |-> nm]

(***************************************************************************)
(* internal/hls/playlist.go                                                *)
(***************************************************************************)
\* base.Parse(line).String(): the absolute URL of a reference line
ResolveURL(line) == [name |-> line.name, tok |-> line.tok]

NoURL == [name |-> "-", tok |-> None]

Segment(u, s, d) == [url |-> u, sequence |-> s, duration |-> d]

\* the nil *hls.Segment
NilSegment == Segment(NoURL, None, 0)

\* the override applied to every reference, the counter never used
extractSequenceFromURL_TokenOnly(line, defaultSeq) ==
    IF line.tok # None /\ ~line.tokErr THEN line.tok ELSE 0

extractSequenceFromURL(line, defaultSeq) ==
    IF line.tok # None /\ ~line.tokErr THEN line.tok ELSE defaultSeq

\* the descriptor put in front of the list instead of behind it
ParseLine_Prepends(st, line) ==
    IF line.mseq # None
      THEN [st EXCEPT !.mediaSequence = line.mseq]
    ELSE IF line.inf # None
      THEN [st EXCEPT !.currentDuration = line.inf]
    ELSE IF ~line.blank /\ ~line.hash
      THEN IF line.bad
             THEN [st EXCEPT !.err = TRUE]
             ELSE [st EXCEPT
                     !.segments = <<Segment(ResolveURL(line),
                                    extractSequenceFromURL(line, st.mediaSequence),
                                    st.currentDuration)>> \o @,
                     !.mediaSequence = @ + 1,
                     !.currentDuration = 0]
    ELSE st

\* the counter set to one past the sequence number the reference was given
ParseLine_CounterFollowsOverride(st, line) ==
    IF line.mseq # None
      THEN [st EXCEPT !.mediaSequence = line.mseq]
    ELSE IF line.inf # None
      THEN [st EXCEPT !.currentDuration = line.inf]
    ELSE IF ~line.blank /\ ~line.hash
      THEN IF line.bad
             THEN [st EXCEPT !.err = TRUE]
             ELSE [st EXCEPT
                     !.segments = Append(@,
                         Segment(ResolveURL(line),
                                 extractSequenceFromURL(line, st.mediaSequence),
                                 st.currentDuration)),
                     !.mediaSequence =
                         extractSequenceFromURL(line, st.mediaSequence) + 1,
                     !.currentDuration = 0]
    ELSE st

\* a blank or comment line ending the pending duration
ParseLine_IgnoredLineResets(st, line) ==
    IF line.mseq # None
      THEN [st EXCEPT !.mediaSequence = line.mseq]
    ELSE IF line.inf # None
      THEN [st EXCEPT !.currentDuration = line.inf]
    ELSE IF ~line.blank /\ ~line.hash
      THEN IF line.bad
             THEN [st EXCEPT !.err = TRUE]
             ELSE [st EXCEPT
                     !.segments = Append(@,
                         Segment(ResolveURL(line),
                                 extractSequenceFromURL(line, st.mediaSequence),
                                 st.currentDuration)),
                     !.mediaSequence = @ + 1,
                     !.currentDuration = 0]
    ELSE [st EXCEPT !.currentDuration = 0]

\* One iteration of the scanner loop of ParsePlaylist on a line; st is
\* [segments, mediaSequence, currentDuration, err].
ParseLine(st, line) ==
    IF line.mseq # None
      THEN [st EXCEPT !.mediaSequence = line.mseq]
    ELSE IF line.inf # None
      THEN [st EXCEPT !.currentDuration = line.inf]
    ELSE IF ~line.blank /\ ~line.hash
      THEN IF line.bad
             THEN [st EXCEPT !.err = TRUE]
             ELSE [st EXCEPT
                     !.segments = Append(@,
                         Segment(ResolveURL(line),
                                 extractSequenceFromURL(line, st.mediaSequence),
                                 st.currentDuration)),
                     !.mediaSequence = @ + 1,
                     !.currentDuration = 0]
    ELSE st

RECURSIVE ParseFrom(_, _, _)
ParseFrom(doc, i, st) ==
    IF i > Len(doc) \/ st.err
      THEN st
      ELSE ParseFrom(doc, i + 1, ParseLine(st, doc[i]))

\* a document without a segment refused
ParsePlaylist_EmptyIsError(doc) ==
    LET st == ParseFrom(doc, 1,
                 [segments |-> <<>>, mediaSequence |-> 0,
                  currentDuration |-> 0, err |-> FALSE])
    IN  IF st.err \/ Len(st.segments) = 0
          THEN [err |-> TRUE, segments |-> <<>>]
          ELSE [err |-> FALSE, segments |-> st.segments]

\* ParsePlaylist(playlistContent, baseURL): [err, segments]; on an error the
\* segments are nil.
ParsePlaylist(doc) ==
    LET st == ParseFrom(doc, 1,
                 [segments |-> <<>>, mediaSequence |-> 0,
                  currentDuration |-> 0, err |-> FALSE])
    IN  IF st.err
          THEN [err |-> TRUE, segments |-> <<>>]
          ELSE [err |-> FALSE, segments |-> st.segments]

RECURSIVE LastFrom(_, _, _)
LastFrom(segs, i, last) ==
    IF i > Len(segs)
      THEN last
      ELSE LastFrom(segs, i + 1,
                    IF segs[i].sequence > last.sequence THEN segs[i] ELSE last)

\* GetLastSegment taking the last descriptor of the document
GetLastSegment_LastInDocument(segs) ==
    IF Len(segs) = 0 THEN NilSegment ELSE segs[Len(segs)]

GetLastSegment(segs) ==
    IF Len(segs) = 0 THEN NilSegment ELSE LastFrom(segs, 2, segs[1])

\* the scan going on to the last segment with the sequence number
FindFrom_LastMatch(segs, i, sequence) ==
    LET at == {j \in i..Len(segs) : segs[j].sequence = sequence}
    IN  IF at = {}
          THEN NilSegment
          ELSE segs[CHOOSE j \in at : \A k \in at : k <= j]

RECURSIVE FindFrom(_, _, _)
FindFrom(segs, i, sequence) ==
    IF i > Len(segs)
      THEN NilSegment
      ELSE IF segs[i].sequence = sequence
             THEN segs[i]
             ELSE FindFrom(segs, i + 1, sequence)

FindSegmentBySequence(segs, sequence) == FindFrom(segs, 1, sequence)

(***************************************************************************)
(* Maps (Go map, directory listing) as functions on their key set.         *)
(***************************************************************************)
EmptyMap == [k \in {} |-> None]

MapPut(f, k, v) == [x \in DOMAIN f \cup {k} |-> IF x = k THEN v ELSE f[x]]

MapDel(f, k) == [x \in DOMAIN f \ {k} |-> f[x]]

(***************************************************************************)
(* The origin and internal/hls/fetcher.go                                  *)
(***************************************************************************)
\* number of bytes of a segment at the origin
PayloadLen == 2

\* the bytes the origin serves for a segment URL
Payload(u) == [i \in 1..PayloadLen |-> [u |-> u, i |-> i]]

\* bytes of a file that was at the output path before the run
OldData == <<[u |-> NoURL, i |-> 0]>>

\* What the network does to one segment request: net = "ok", "status"
\* (client.Get fails or the status is not 200: nothing is written) or
\* "copy" (io.Copy fails after k bytes were written).
NetOutcomes ==
    {[net |-> "ok", k |-> PayloadLen], [net |-> "status", k |-> 0]}
      \cup {[net |-> "copy", k |-> k] : k \in 0..(PayloadLen - 1)}

\* Fetcher.FetchSegment(segmentURL, writer): [err, data], data being what
\* reached the writer.
FetchSegment(u, o) ==
    IF o.net = "ok"
      THEN [err |-> FALSE, data |-> Payload(u)]
      ELSE [err |-> TRUE, data |-> SubSeq(Payload(u), 1, o.k)]

(***************************************************************************)
(* internal/downloader: Manager.  A manager value m is                     *)
(*   [segments  sequence -> file path  (m.segments),                       *)
(*    files     file path -> bytes, the files of tempDir on disk,          *)
(*    dir       tempDir exists]                                            *)
(***************************************************************************)
\* filepath.Join(m.tempDir, fmt.Sprintf("segment_%d.ts", segment.Sequence))
Filename(sequence) == [file |-> "segment", seq |-> sequence]

NoPath == [file |-> "", seq |-> None]

\* NewManager(tempDir)
NewManager == [segments |-> EmptyMap, files |-> EmptyMap, dir |-> TRUE]

\* the failed download's file left where it is
RemoveOnError_Forgotten(fs, filename) == fs

\* the file of a failed download after "os.Remove(filename) // Clean up on error"
RemoveOnError(fs, filename) == MapDel(fs, filename)

\* the os.Stat test turned around
StatOK_Inverted(m, path) == path \notin DOMAIN m.files

\* os.Stat(path) succeeds
StatOK(m, path) == path \in DOMAIN m.files

\* the entry whose file is gone left in the map
DownloadSegment_StaleEntryKept(m, seg, env) ==
    LET seq == seg.sequence
        exists == seq \in DOMAIN m.segments
        hit == exists /\ StatOK(m, m.segments[seq])
        segs1 == m.segments
        filename == Filename(seq)
        f == FetchSegment(seg.url, env)
    IN  IF hit
          THEN [m |-> m, path |-> m.segments[seq], err |-> FALSE, fetched |-> <<>>]
        ELSE IF ~m.dir \/ ~env.create
          THEN [m |-> [m EXCEPT !.segments = segs1],
                path |-> NoPath, err |-> TRUE, fetched |-> <<>>]
        ELSE IF f.err
          THEN [m |-> [m EXCEPT !.segments = segs1,
                                !.files = RemoveOnError(MapPut(@, filename, f.data),
                                                        filename)],
                path |-> NoPath, err |-> TRUE, fetched |-> <<seg.url>>]
        ELSE [m |-> [m EXCEPT !.segments = MapPut(segs1, seq, filename),
                              !.files = MapPut(@, filename, f.data)],
              path |-> filename, err |-> FALSE, fetched |-> <<seg.url>>]

\* Manager.DownloadSegment(segment).  env = [create, net, k]: create is
\* whether os.Create succeeds, net and k are the network's outcome.
\* Result: [m, path, err, fetched], fetched the URLs requested of the network.
DownloadSegment(m, seg, env) ==
    LET seq == seg.sequence
        exists == seq \in DOMAIN m.segments
        hit == exists /\ StatOK(m, m.segments[seq])
        segs1 == IF exists /\ ~hit THEN MapDel(m.segments, seq) ELSE m.segments
        filename == Filename(seq)
        f == FetchSegment(seg.url, env)
    IN  IF hit
          THEN [m |-> m, path |-> m.segments[seq], err |-> FALSE, fetched |-> <<>>]
        ELSE IF ~m.dir \/ ~env.create
          THEN [m |-> [m EXCEPT !.segments = segs1],
                path |-> NoPath, err |-> TRUE, fetched |-> <<>>]
        ELSE IF f.err
          THEN [m |-> [m EXCEPT !.segments = segs1,
                                !.files = RemoveOnError(MapPut(@, filename, f.data),
                                                        filename)],
                path |-> NoPath, err |-> TRUE, fetched |-> <<seg.url>>]
        ELSE [m |-> [m EXCEPT !.segments = MapPut(segs1, seq, filename),
                              !.files = MapPut(@, filename, f.data)],
              path |-> filename, err |-> FALSE, fetched |-> <<seg.url>>]

\* Manager.GetSegmentPath(sequence)
GetSegmentPath(m, sequence) ==
    IF sequence \in DOMAIN m.segments
      THEN [path |-> m.segments[sequence], exists |-> TRUE]
      ELSE [path |-> NoPath, exists |-> FALSE]

\* copyFile(srcPath, dst) called for the i-th sequence of a merge; io says at
\* which position of the list io.Copy fails (0: nowhere) and after how many
\* bytes.  [err, data]: err is "open" when os.Open fails, "copy" when
\* io.Copy does, "" otherwise; data is what reached dst.
copyFile(fs, srcPath, i, io) ==
    IF srcPath \notin DOMAIN fs
      THEN [err |-> "open", data |-> <<>>]
    ELSE IF io.failAt = i
      THEN [err |-> "copy", data |-> SubSeq(fs[srcPath], 1, io.k)]
    ELSE [err |-> "", data |-> fs[srcPath]]

\* a sequence without an entry passed over instead of reported
RECURSIVE MergeFrom_SkipMissing(_, _, _, _, _)
MergeFrom_SkipMissing(m, sequences, i, data, io) ==
    IF i > Len(sequences)
      THEN [err |-> "", data |-> data]
      ELSE LET p == GetSegmentPath(m, sequences[i])
               c == copyFile(m.files, p.path, i, io)
           IN  IF ~p.exists
                 THEN MergeFrom_SkipMissing(m, sequences, i + 1, data, io)
               ELSE IF c.err # ""
                 THEN [err |-> c.err, data |-> data \o c.data]
               ELSE MergeFrom_SkipMissing(m, sequences, i + 1, data \o c.data, io)

\* the loop of MergeSegments from position i on, data being the bytes
\* already in the output file
RECURSIVE MergeFrom(_, _, _, _, _)
MergeFrom(m, sequences, i, data, io) ==
    IF i > Len(sequences)
      THEN [err |-> "", data |-> data]
      ELSE LET p == GetSegmentPath(m, sequences[i])
               c == copyFile(m.files, p.path, i, io)
           IN  IF ~p.exists
                 THEN [err |-> "missing", data |-> data]
               ELSE IF c.err # ""
                 THEN [err |-> c.err, data |-> data \o c.data]
               ELSE MergeFrom(m, sequences, i + 1, data \o c.data, io)

\* MergeSegments walking the list from its end
MergeSegments_Backwards(m, out, sequences, io) ==
    IF ~io.create
      THEN [err |-> "create", out |-> out]
      ELSE LET n == Len(sequences)
               r == MergeFrom(m, [i \in 1..n |-> sequences[n + 1 - i]], 1, <<>>, io)
           IN  [err |-> r.err, out |-> [exists |-> TRUE, data |-> r.data, open |-> FALSE]]

\* the output file put in place only when every sequence was copied
MergeSegments_OutputOnSuccess(m, out, sequences, io) ==
    IF ~io.create
      THEN [err |-> "create", out |-> out]
      ELSE LET r == MergeFrom(m, sequences, 1, <<>>, io)
           IN  [err |-> r.err,
                out |-> IF r.err = ""
                          THEN [exists |-> TRUE, data |-> r.data, open |-> FALSE]
                          ELSE out]

\* Manager.MergeSegments(outputPath, sequences).  out is the file at
\* outputPath, [exists, data, open]; io = [create, failAt, k].  [err, out].
\* The deferred outputFile.Close() has run when the call returns.
MergeSegments(m, out, sequences, io) ==
    IF ~io.create
      THEN [err |-> "create", out |-> out]
      ELSE LET r == MergeFrom(m, sequences, 1, <<>>, io)
           IN  [err |-> r.err, out |-> [exists |-> TRUE, data |-> r.data, open |-> FALSE]]

\* os.RemoveAll(tempDir): whatever the directory still holds goes with it
RemoveAll(fs) == [p \in {} |-> fs[p]]

\* Cleanup without "m.segments = make(map[int]string)"
Cleanup_KeepsMap(m) ==
    LET paths == {m.segments[s] : s \in DOMAIN m.segments}
        left == [p \in DOMAIN m.files \ paths |-> m.files[p]]
    IN  [segments |-> m.segments, files |-> RemoveAll(left), dir |-> FALSE]

\* Manager.Cleanup(): os.Remove of every registered path, a fresh map, then
\* os.RemoveAll(m.tempDir)
Cleanup(m) ==
    LET paths == {m.segments[s] : s \in DOMAIN m.segments}
        left == [p \in DOMAIN m.files \ paths |-> m.files[p]]
    IN  [segments |-> EmptyMap, files |-> RemoveAll(left), dir |-> FALSE]

(***************************************************************************)
(* The environment of a capture run.                                       *)
(***************************************************************************)
\* the lines the origin's playlist is made of
Lines ==
    {RefLine("a", t) : t \in 0..MaxSeq}
      \cup {RefLine("b", t) : t \in {0, MaxSeq}}
      \cup {RefLine("a", None), BadRefLine}
      \cup {MediaSeqLine(n) : n \in 1..MaxSeq}
      \cup {EndListLine}

\* the playlist documents the origin may serve
Docs == UNION {[1..n -> Lines] : n \in 0..MaxLines}

\* what a successful FetchPlaylist followed by ParsePlaylist can return
Snapshots == {ParsePlaylist(d) : d \in Docs}

\* capture.go:129 and 134 on every snapshot a poll for sequence seq can get:
\* the segment found and the last segment
\* tabulated once for the sequence numbers a run can wait for.
SeqRange == 0..(MaxSeq + MaxLines + MaxCount)

\* the URLs of the segments of a snapshot that carry a sequence number, in
\* document order
Matching(segs, sequence) ==
    LET hit == SelectSeq(segs, LAMBDA x : x.sequence = sequence)
    IN  [i \in 1..Len(hit) |-> hit[i].url]

\* the origin has marked the end of the stream in the document
Ended(doc) == \E i \in 1..Len(doc) : doc[i] = EndListLine

\* what capture.go:134-137 reads of lastSeg: whether it is nil, and its
\* Sequence
LastSeen(segs) ==
    [isNil |-> GetLastSegment(segs) = NilSegment,
     sequence |-> GetLastSegment(segs).sequence]

PollTable ==
    {[seq |-> q,
      found |-> FindSegmentBySequence(ParsePlaylist(d).segments, q),
      lastSeg |-> LastSeen(ParsePlaylist(d).segments),
      matches |-> Matching(ParsePlaylist(d).segments, q),
      ended |-> Ended(d)] :
        q \in SeqRange, d \in {x \in Docs : ~ParsePlaylist(x).err}}

PollResults(seq) == {v \in PollTable : v.seq = seq}

\* what os.Create and the network do to one DownloadSegment call
DownloadEnvs ==
    {[create |-> FALSE, net |-> "status", k |-> 0]}
      \cup {[create |-> TRUE, net |-> o.net, k |-> o.k] : o \in NetOutcomes}

\* what os.Create and io.Copy do to one MergeSegments call over n sequences
MergeEnvs(n) ==
    {[create |-> c, failAt |-> 0, k |-> 0] : c \in BOOLEAN}
      \cup {[create |-> TRUE, failAt |-> i, k |-> k] :
                i \in 1..n, k \in 0..(PayloadLen - 1)}

(***************************************************************************)
(* State.                                                                  *)
(*   entry: the function that runs the capture, executeCapture             *)
(*     (cmd/capture.go) or main (main.go)                                  *)
(*   the capture run: pc, segmentCount, startSequence, targetSequence,      *)
(*     currentSeq, retryCount, segment, downloadedSequences, ctxDone,      *)
(*     result (how the run ended)                                          *)
(*   Manager and disk: segments, files, tempDir, output                    *)
(*   history: firstHighest (highest sequence number of the first snapshot),*)
(*     lastPoll (outcome of the latest poll, with the URLs of the segments *)
(*     of its snapshot that carry the sequence waited for and whether the  *)
(*     document marked the end of the stream), segRequests (sequences       *)
(*     handed to DownloadSegment), fetches (segment requests sent to the    *)
(*     network), failed (sequences whose download failed), lastOp (the     *)
(*     latest Manager call and what it returned), calls (steps so far),    *)
(*     disposals (Cleanup calls so far), stagedOrder (the sequences        *)
(*     staged, in the order of their latest fetch), cancelledAt (where    *)
(*     the run was when cancel() was called), stages (the post-processing  *)
(*     stages invoked, in their order), lateRequests (the playlist and     *)
(*     segment requests of steps taken after cancel() was called)          *)
(*   ParsePlaylist on its own: playlistContent, parsed                     *)
(*   concurrent calls of one Manager: mu (who holds m.mu, reading or       *)
(*     writing), th (where each goroutine is in its call), mapWrite         *)
(*     (history: the latest statement that wrote m.segments, and how many   *)
(*     there were)                                                         *)
(***************************************************************************)
VARIABLES entry, pc, segmentCount, startSequence, targetSequence, currentSeq,
          retryCount, segment, downloadedSequences, ctxDone, result,
          segments, files, tempDir, output,
          firstHighest, lastPoll, segRequests, fetches, failed, lastOp, calls,
          disposals, stagedOrder, cancelledAt, stages, lateRequests,
          playlistContent, parsed,
          mu, th, mapWrite

ctlVars == <<entry, pc, segmentCount, startSequence, targetSequence, currentSeq,
             retryCount, segment, downloadedSequences, ctxDone, result>>

storeVars == <<segments, files, tempDir, output>>

histVars == <<firstHighest, lastPoll, segRequests, fetches, failed, lastOp, calls,
              disposals, stagedOrder, cancelledAt, stages, lateRequests>>

parseVars == <<playlistContent, parsed>>

concVars == <<mu, th, mapWrite>>

vars == <<ctlVars, storeVars, histVars, parseVars, concVars>>

\* the goroutines that call the Manager at the same time
Threads == {"t1", "t2"}

NoThread == "-"

\* a goroutine that is in no Manager call.  A goroutine in a call is
\* [op, pc, seg, attached, written]: the method, the statement it is at, the
\* segment (or sequence) it was called with, whether the file it created is
\* still the file at its path (it is not once the path was removed), and
\* the number of bytes its FetchSegment wrote to that file
Idle ==
    [op |-> "idle", pc |-> "-", seg |-> NilSegment, attached |-> FALSE,
     written |-> 0]

\* m.mu with nobody holding it
Unlocked == [readers |-> {}, writer |-> NoThread]

\* no statement has written m.segments yet
NoMapWrite == [n |-> 0, by |-> NoThread, how |-> "none"]

\* the Manager as a value
M == [segments |-> segments, files |-> files, dir |-> tempDir]

SetManager(m) ==
    /\ segments' = m.segments
    /\ files' = m.files
    /\ tempDir' = m.dir

\* no request was made after cancel()
NoLateRequests == [playlist |-> 0, segment |-> 0]

\* lateRequests after a step that made p playlist and g segment requests
Late(p, g) ==
    IF ctxDone
      THEN [playlist |-> lateRequests.playlist + p,
            segment |-> lateRequests.segment + g]
      ELSE lateRequests

NoPoll == [outcome |-> "none", last |-> None, n |-> 0, matches |-> <<>>,
           ended |-> FALSE]

\* a Manager call: the method, its sequence or list argument, the error and
\* path it returned, the network requests it made, and the step it was
NoOp == [op |-> "none", seq |-> None, list |-> <<>>, err |-> "", path |-> NoPath,
         fetched |-> 0, at |-> 0]

Op(o, s, l, e, p, f, n) ==
    [op |-> o, seq |-> s, list |-> l, err |-> e, path |-> p, fetched |-> f, at |-> n]

\* list without its occurrences of x
RECURSIVE Without(_, _)
Without(list, x) ==
    IF list = <<>>
      THEN <<>>
      ELSE IF list[1] = x
             THEN Without(Tail(list), x)
             ELSE <<list[1]>> \o Without(Tail(list), x)

\* stagedOrder after a DownloadSegment call that returned r for sequence seq
Staged(order, seq, r) ==
    IF ~r.err /\ Len(r.fetched) > 0 THEN Append(Without(order, seq), seq) ELSE order

\* the file at the output path: whether it exists, its bytes, and whether the
\* process holds it open
OutputFiles ==
    {[exists |-> FALSE, data |-> <<>>, open |-> FALSE],
     [exists |-> TRUE, data |-> OldData, open |-> FALSE]}

\* ParsePlaylist has not been called
NotParsed == [err |-> FALSE, segments |-> <<>>, called |-> FALSE]

Init ==
    /\ entry \in {"executeCapture", "main"}
    /\ pc = "init"
    /\ segmentCount \in (-1)..MaxCount
    /\ startSequence = None
    /\ targetSequence = None
    /\ currentSeq = None
    /\ retryCount = 0
    /\ segment = NilSegment
    /\ downloadedSequences = <<>>
    /\ ctxDone = FALSE
    /\ result = "running"
    /\ segments = NewManager.segments
    /\ files = NewManager.files
    /\ tempDir = NewManager.dir
    /\ output \in OutputFiles
    /\ firstHighest = None
    /\ lastPoll = NoPoll
    /\ segRequests = <<>>
    /\ fetches = 0
    /\ failed = {}
    /\ lastOp = NoOp
    /\ calls = 0
    /\ disposals = 0
    /\ stagedOrder = <<>>
    /\ cancelledAt = "-"
    /\ stages = <<>>
    /\ lateRequests = NoLateRequests
    /\ playlistContent = <<>>
    /\ parsed = NotParsed
    /\ mu = Unlocked
    /\ th = [t \in Threads |-> Idle]
    /\ mapWrite = NoMapWrite

\* The run ends through os.Exit(1): main does so on every fatal error
\* (main.go:86, 92, 97, 104, 183, 189), executeCapture returns the error
\* instead.
Exits(e, res) ==
    /\ e = "main"
    /\ res \in {"fetch_error", "parse_error", "no_segments", "mkdir_error",
                "merge_error"}

\* The run ends with outcome res.  When the function returns or panics, the
\* deferred manager.Cleanup() and os.RemoveAll(tempDir) run; os.Exit ends
\* the process without running them.
Return(res) ==
    /\ pc' = "done"
    /\ result' = res
    /\ calls' = calls + 1
    /\ IF Exits(entry, res)
         THEN UNCHANGED <<segments, files, tempDir, lastOp, disposals>>
         ELSE /\ SetManager(Cleanup(M))
              /\ lastOp' = Op("cleanup", None, <<>>, "", NoPath, 0, calls + 1)
              /\ disposals' = disposals + 1

\* the highest sequence number a snapshot holds
Highest(segs) ==
    IF Len(segs) = 0
      THEN None
      ELSE CHOOSE s \in {segs[i].sequence : i \in 1..Len(segs)} :
               \A j \in 1..Len(segs) : segs[j].sequence <= s

\* capture.go:88-89
Window(last, count) ==
    [start |-> last.sequence, target |-> last.sequence + count - 1]

\* the first snapshot taken whatever it holds
FirstSnapshot_EmptyAccepted(snap) ==
    IF snap.err THEN "parse_error" ELSE "ok"

\* capture.go:72-86: what the first snapshot lets the run do.  A snapshot
\* with no segment and one whose last segment cannot be determined (the
\* same snapshots, see GetLastSegment) both end the run.
FirstSnapshot(snap) ==
    IF snap.err
      THEN "parse_error"
    ELSE IF Len(snap.segments) = 0 \/ GetLastSegment(snap.segments) = NilSegment
      THEN "no_segments"
    ELSE "ok"

\* capture.go:67-95: the first snapshot and the window
Initialize ==
    /\ pc = "init"
    /\ \/ /\ Return("fetch_error")
          /\ UNCHANGED <<startSequence, targetSequence, currentSeq, firstHighest>>
       \/ \E snap \in Snapshots :
            LET w == Window(GetLastSegment(snap.segments), segmentCount)
            IN  IF FirstSnapshot(snap) # "ok"
                  THEN /\ Return(FirstSnapshot(snap))
                       /\ UNCHANGED <<startSequence, targetSequence, currentSeq,
                                      firstHighest>>
                ELSE /\ firstHighest' = Highest(snap.segments)
                     /\ startSequence' = w.start
                     /\ targetSequence' = w.target
                     /\ IF segmentCount < 0
                          THEN \* make([]int, 0, segmentCount) panics
                               /\ Return("panic_makeslice")
                               /\ UNCHANGED currentSeq
                          ELSE /\ currentSeq' = w.start
                               /\ pc' = "loop"
                               /\ UNCHANGED <<result, segments, files, tempDir,
                                              lastOp, calls, disposals>>
    /\ lateRequests' = Late(1, 0)
    /\ UNCHANGED <<entry, parseVars, concVars, cancelledAt, stages,
                   segmentCount, retryCount, segment,
                   downloadedSequences, ctxDone,
                   output, lastPoll, segRequests, fetches, failed, stagedOrder>>

\* the loop running one sequence past the target
LoopContinues_OnePast(seq, target) == seq <= target + 1

\* a cancelled context ending the loop like an exhausted window ("break")
LoopContinues_UntilCancelled(seq, target) == seq <= target /\ ~ctxDone

\* capture.go:95: currentSeq <= targetSequence
LoopContinues(seq, target) == seq <= target

\* the check of the context left out
SelectCtx_NoCheck(done) == "default"

\* capture.go:97-102 and 108-113: select { case <-ctx.Done(): ... default: }
SelectCtx(done) == IF done THEN "ctx.Done" ELSE "default"

\* capture.go:95-106: the head of the loop over the window
LoopHead ==
    /\ pc = "loop"
    /\ IF ~LoopContinues(currentSeq, targetSequence)
         THEN /\ pc' = "merge"
              /\ UNCHANGED <<result, retryCount, segment, lastPoll, segments, files,
                             tempDir, lastOp, calls, disposals>>
       ELSE IF SelectCtx(ctxDone) = "ctx.Done"
         THEN /\ Return("cancelled")
              /\ UNCHANGED <<retryCount, segment, lastPoll>>
       ELSE /\ pc' = "poll"
            /\ retryCount' = 0
            /\ segment' = NilSegment
            /\ lastPoll' = NoPoll
            /\ UNCHANGED <<result, segments, files, tempDir, lastOp, calls, disposals>>
    /\ UNCHANGED <<entry, parseVars, concVars, cancelledAt, stages, lateRequests,
                   segmentCount, startSequence,
                   targetSequence, currentSeq,
                   downloadedSequences, ctxDone, output, firstHighest,
                   segRequests, fetches, failed, stagedOrder>>

\* capture.go:107-113: the head of the polling loop
PollHead ==
    /\ pc = "poll"
    /\ IF SelectCtx(ctxDone) = "ctx.Done"
         THEN Return("cancelled")
         ELSE /\ pc' = "fetch"
              /\ UNCHANGED <<result, segments, files, tempDir, lastOp, calls, disposals>>
    /\ UNCHANGED <<entry, parseVars, concVars, cancelledAt, stages, lateRequests,
                   segmentCount, startSequence,
                   targetSequence, currentSeq,
                   retryCount, segment, downloadedSequences, ctxDone, output,
                   firstHighest, lastPoll, segRequests, fetches, failed, stagedOrder>>

Sat(n) == IF n < MaxPolls THEN n + 1 ELSE MaxPolls

\* capture.go:135: the progress line is printed (and lastSeg is read)
PrintsProgress(rc) == rc % ProgressEvery = 0 \/ rc = 0

\* a failed poll treated like a failed download: on to the next sequence
OnPollError_Skip(seq) == [pc |-> "loop", seq |-> seq + 1]

\* capture.go:118-119 and 125-126: after a failed poll for seq, sleep and
\* continue: the polling loop starts over for the same sequence
OnPollError(seq) == [pc |-> "poll", seq |-> seq]

\* capture.go:115-127: FetchPlaylist or ParsePlaylist fails
PollFails ==
    /\ pc = "fetch"
    /\ \E why \in {"fetchErr", "parseErr"} :
         /\ why = "parseErr" => \E snap \in Snapshots : snap.err
         /\ lastPoll' = [outcome |-> why, last |-> None, n |-> Sat(lastPoll.n),
                         matches |-> <<>>, ended |-> FALSE]
    /\ pc' = OnPollError(currentSeq).pc
    /\ currentSeq' = OnPollError(currentSeq).seq
    /\ lateRequests' = Late(1, 0)
    /\ UNCHANGED <<entry, parseVars, concVars, cancelledAt, stages,
                   segmentCount, startSequence, targetSequence,
                   retryCount, segment, downloadedSequences, ctxDone, result,
                   storeVars, firstHighest, segRequests, fetches, failed,
                   lastOp, calls, disposals, stagedOrder>>

\* capture.go:129-140: a snapshot was fetched and parsed.  retryCount is
\* kept modulo ProgressEvery, which is all the code reads of it.
PollSnapshot ==
    /\ pc = "fetch"
    /\ \E got \in PollResults(currentSeq) :
         LET found == got.found
             lastSeg == got.lastSeg
         IN  /\ IF found # NilSegment
                  THEN /\ segment' = found
                       /\ pc' = "stage"
                       /\ lastPoll' = [outcome |-> "found", last |-> lastSeg.sequence,
                                       n |-> 0, matches |-> got.matches,
                                       ended |-> got.ended]
                       /\ UNCHANGED <<retryCount, result, segments, files, tempDir,
                                      lastOp, calls, disposals>>
                ELSE IF PrintsProgress(retryCount) /\ lastSeg.isNil
                  THEN \* lastSeg.Sequence on a nil lastSeg
                       /\ Return("panic_nil")
                       /\ lastPoll' = [outcome |-> "absent", last |-> None, n |-> 0,
                                       matches |-> got.matches,
                                       ended |-> got.ended]
                       /\ UNCHANGED <<retryCount, segment>>
                ELSE /\ retryCount' = (retryCount + 1) % ProgressEvery
                     /\ pc' = "poll"
                     /\ lastPoll' = [outcome |-> "absent", last |-> lastSeg.sequence,
                                     n |-> 0, matches |-> got.matches,
                                       ended |-> got.ended]
                     /\ UNCHANGED <<segment, result, segments, files, tempDir,
                                    lastOp, calls, disposals>>
    /\ lateRequests' = Late(1, 0)
    /\ UNCHANGED <<entry, parseVars, concVars, cancelledAt, stages,
                   segmentCount, startSequence,
                   targetSequence, currentSeq,
                   downloadedSequences, ctxDone, output, firstHighest,
                   segRequests, fetches, failed, stagedOrder>>

\* a failed download tried again
NextSeq_RetryOnError(seq, err) == IF err THEN seq ELSE seq + 1

\* capture.go:148 and 95: after a download the loop goes on with the next
\* sequence, whether the download failed or not
NextSeq(seq, err) == seq + 1

\* the sequence recorded whether or not its download failed
Downloaded_AlsoOnError(list, seq, err) == Append(list, seq)

\* capture.go:146-151: the list after the download of seq
Downloaded(list, seq, err) == IF err THEN list ELSE Append(list, seq)

\* capture.go:142-152: DownloadSegment of the segment found
Stage ==
    /\ pc = "stage"
    /\ \E env \in DownloadEnvs :
         LET r == DownloadSegment(M, segment, env)
         IN  /\ SetManager(r.m)
             /\ downloadedSequences' = Downloaded(downloadedSequences, currentSeq, r.err)
             /\ currentSeq' = NextSeq(currentSeq, r.err)
             /\ failed' = IF r.err THEN failed \cup {currentSeq} ELSE failed
             /\ fetches' = fetches + Len(r.fetched)
             /\ stagedOrder' = Staged(stagedOrder, segment.sequence, r)
             /\ lastOp' = Op("download", segment.sequence, <<>>,
                             IF r.err THEN "error" ELSE "", r.path, Len(r.fetched),
                             calls + 1)
    /\ segRequests' = Append(segRequests, segment.sequence)
    /\ calls' = calls + 1
    /\ pc' = "loop"
    \* segment and retryCount are variables of one iteration
    /\ segment' = NilSegment
    /\ retryCount' = 0
    /\ lastPoll' = NoPoll
    /\ lateRequests' = Late(0, lastOp'.fetched)
    /\ UNCHANGED <<entry, parseVars, concVars, cancelledAt, stages,
                   segmentCount, startSequence, targetSequence,
                   ctxDone, result, output, firstHighest, disposals>>

\* the run going on to post-processing whatever MergeSegments returned
AfterMerge_ErrorIgnored(e, err) == IF e = "main" THEN "ok" ELSE "post"

\* capture.go:170-179 and main.go:187-193: what follows MergeSegments.  An
\* error ends the run; without one main is at its end and executeCapture
\* goes on to post-processing.
AfterMerge(e, err) ==
    IF err # "" THEN "merge_error" ELSE IF e = "main" THEN "ok" ELSE "post"

\* capture.go:156-182: the output directory and MergeSegments
Merge ==
    /\ pc = "merge"
    /\ \/ \* os.MkdirAll(outputDir) fails
          /\ Return("mkdir_error")
          /\ UNCHANGED output
       \/ \E io \in MergeEnvs(Len(downloadedSequences)) :
            LET r == MergeSegments(M, output, downloadedSequences, io)
                res == AfterMerge(entry, r.err)
                n == IF res = "post" \/ Exits(entry, res) THEN 1 ELSE 2
            IN  /\ output' = r.out
                /\ IF res = "post"
                     THEN /\ pc' = "post"
                          /\ UNCHANGED <<result, segments, files, tempDir, disposals>>
                     ELSE /\ pc' = "done"
                          /\ result' = res
                          /\ IF Exits(entry, res)
                               THEN UNCHANGED <<segments, files, tempDir, disposals>>
                               ELSE /\ SetManager(Cleanup(M))
                                    /\ disposals' = disposals + 1
                /\ lastOp' = Op("merge", None, downloadedSequences, r.err, NoPath, 0,
                                calls + n)
                /\ calls' = calls + n
    /\ UNCHANGED <<entry, parseVars, concVars, cancelledAt, stages, lateRequests,
                   segmentCount, startSequence,
                   targetSequence, currentSeq,
                   retryCount, segment, downloadedSequences, ctxDone,
                   firstHighest, lastPoll, segRequests, fetches, failed, stagedOrder>>

\* root.go:68-75: --subtitle and --audio-only both switch extractAudio on
Modes ==
    {m \in [extractAudio : BOOLEAN, extractSubtitle : BOOLEAN, audioOnly : BOOLEAN] :
        (m.extractSubtitle \/ m.audioOnly) => m.extractAudio}

\* what fails in post-processing: nothing, audio.NewExtractor, ExtractAudio,
\* subtitle.NewExtractor or ExtractSubtitle
PostFailures == {"none", "audio_init", "audio", "subtitle_init", "subtitle"}

\* capture.go:184-235 for the flags of mode: [stages, result, out], stages
\* being the extractions invoked, out the file at the output path
PostProcessing(mode, fail, removeOK, out) ==
    IF ~mode.extractAudio
      THEN [stages |-> <<>>, result |-> "ok", out |-> out]
    ELSE IF fail = "audio_init"
      THEN [stages |-> <<>>, result |-> "audio_error", out |-> out]
    ELSE IF fail = "audio"
      THEN [stages |-> <<"audio">>, result |-> "audio_error", out |-> out]
    ELSE IF mode.extractSubtitle /\ fail = "subtitle_init"
      THEN [stages |-> <<"audio">>, result |-> "subtitle_error", out |-> out]
    ELSE IF mode.extractSubtitle /\ fail = "subtitle"
      THEN [stages |-> <<"audio", "subtitle">>, result |-> "subtitle_error",
            out |-> out]
    ELSE [stages |-> IF mode.extractSubtitle
                       THEN <<"audio", "subtitle">>
                       ELSE <<"audio">>,
          result |-> "ok",
          out |-> IF mode.audioOnly /\ removeOK
                    THEN [exists |-> FALSE, data |-> <<>>, open |-> FALSE]
                    ELSE out]

\* capture.go:184-238: post-processing and the return of executeCapture.
\* The three flags are read here for the first time that they make a
\* difference (both branches of capture.go:169-182 make the same call), so
\* they are drawn here.
PostProcess ==
    /\ pc = "post"
    /\ \E mode \in Modes, fail \in PostFailures, removeOK \in BOOLEAN :
         LET r == PostProcessing(mode, fail, removeOK, output)
         IN  /\ stages' = r.stages
             /\ output' = r.out
             /\ Return(r.result)
    /\ UNCHANGED <<entry, parseVars, concVars, cancelledAt, lateRequests,
                   segmentCount, startSequence,
                   targetSequence, currentSeq,
                   retryCount, segment, downloadedSequences, ctxDone,
                   firstHighest, lastPoll, segRequests, fetches, failed, stagedOrder>>

\* capture.go:52-56: the signal handler calls cancel()
Cancel ==
    /\ pc \in {"init", "loop", "poll", "fetch", "stage", "merge", "post"}
    /\ ~ctxDone
    /\ ctxDone' = TRUE
    /\ cancelledAt' = pc
    /\ UNCHANGED <<entry, parseVars, concVars, stages, lateRequests,
                   pc, segmentCount, startSequence, targetSequence,
                   currentSeq, retryCount, segment, downloadedSequences, result,
                   storeVars, firstHighest, lastPoll, segRequests, fetches, failed,
                   lastOp, calls, disposals, stagedOrder>>

Next ==
    \/ Initialize
    \/ LoopHead
    \/ PollHead
    \/ PollFails
    \/ PollSnapshot
    \/ Stage
    \/ Merge
    \/ PostProcess
    \/ Cancel

Spec == Init /\ [][Next]_vars

\* The capture run goes on: every network call, every time.Sleep and every
\* Manager call of the single control flow returns.  Nothing makes the
\* operator send a signal, so Cancel has no fairness.
Fairness ==
    /\ WF_vars(Initialize)
    /\ WF_vars(LoopHead)
    /\ WF_vars(PollHead)
    /\ WF_vars(PollFails \/ PollSnapshot)
    /\ WF_vars(Stage)
    /\ WF_vars(Merge)
    /\ WF_vars(PostProcess)

SpecFair == Spec /\ Fairness

(***************************************************************************)
(* SpecStore: one Manager, its methods called in any order with any        *)
(* arguments, and a staging directory whose files may disappear (the case  *)
(* DownloadSegment's os.Stat looks for).                                   *)
(***************************************************************************)
\* the descriptors handed to DownloadSegment
StoreSegments ==
    {Segment(ResolveURL(RefLine(nm, t)), t, 0) : nm \in {"a", "b"}, t \in 0..MaxStoreSeq}

\* the lists handed to MergeSegments: sequence numbers in any order, none twice
MergeLists ==
    {l \in UNION {[1..n -> 0..MaxStoreSeq] : n \in 0..(MaxStoreSeq + 1)} :
        \A i, j \in 1..Len(l) : l[i] = l[j] => i = j}

InitStore ==
    /\ entry = "none"
    /\ pc = "store"
    /\ segmentCount = 0
    /\ startSequence = None
    /\ targetSequence = None
    /\ currentSeq = None
    /\ retryCount = 0
    /\ segment = NilSegment
    /\ downloadedSequences = <<>>
    /\ ctxDone = FALSE
    /\ result = "running"
    /\ segments = NewManager.segments
    /\ files = NewManager.files
    /\ tempDir = NewManager.dir
    /\ output \in OutputFiles
    /\ firstHighest = None
    /\ lastPoll = NoPoll
    /\ segRequests = <<>>
    /\ fetches = 0
    /\ failed = {}
    /\ lastOp = NoOp
    /\ calls = 0
    /\ disposals = 0
    /\ stagedOrder = <<>>
    /\ cancelledAt = "-"
    /\ stages = <<>>
    /\ lateRequests = NoLateRequests
    /\ playlistContent = <<>>
    /\ parsed = NotParsed
    /\ mu = Unlocked
    /\ th = [t \in Threads |-> Idle]
    /\ mapWrite = NoMapWrite

StoreDownload ==
    /\ pc = "store"
    /\ calls < MaxCalls
    /\ \E seg \in StoreSegments, env \in DownloadEnvs :
         LET r == DownloadSegment(M, seg, env)
         IN  /\ SetManager(r.m)
             /\ fetches' = fetches + Len(r.fetched)
             /\ stagedOrder' = Staged(stagedOrder, seg.sequence, r)
             /\ lastOp' = Op("download", seg.sequence, <<>>,
                             IF r.err THEN "error" ELSE "", r.path, Len(r.fetched),
                             calls + 1)
    /\ calls' = calls + 1
    /\ UNCHANGED <<ctlVars, parseVars, concVars, cancelledAt, stages, lateRequests,
                   output, firstHighest, lastPoll, segRequests,
                   failed, disposals>>

StoreMerge ==
    /\ pc = "store"
    /\ calls < MaxCalls
    /\ \E list \in MergeLists :
         \E io \in MergeEnvs(Len(list)) :
            LET r == MergeSegments(M, output, list, io)
            IN  /\ output' = r.out
                /\ lastOp' = Op("merge", None, list, r.err, NoPath, 0, calls + 1)
    /\ calls' = calls + 1
    /\ UNCHANGED <<ctlVars, parseVars, concVars, cancelledAt, stages, lateRequests,
                   segments, files, tempDir, firstHighest,
                   lastPoll, segRequests, fetches, failed, disposals, stagedOrder>>

StoreCleanup ==
    /\ pc = "store"
    /\ calls < MaxCalls
    /\ SetManager(Cleanup(M))
    /\ lastOp' = Op("cleanup", None, <<>>, "", NoPath, 0, calls + 1)
    /\ calls' = calls + 1
    /\ disposals' = disposals + 1
    /\ UNCHANGED <<ctlVars, parseVars, concVars, cancelledAt, stages, lateRequests,
                   output, firstHighest, lastPoll, segRequests,
                   fetches, failed, stagedOrder>>

\* a staged file is removed behind the Manager's back
ExternalRemove ==
    /\ pc = "store"
    /\ calls < MaxCalls
    /\ \E p \in DOMAIN files : files' = MapDel(files, p)
    /\ calls' = calls + 1
    /\ UNCHANGED <<ctlVars, parseVars, concVars, cancelledAt, stages, lateRequests,
                   segments, tempDir, output, firstHighest,
                   lastPoll, segRequests, fetches, failed, lastOp, disposals,
                   stagedOrder>>

NextStore ==
    \/ StoreDownload
    \/ StoreMerge
    \/ StoreCleanup
    \/ ExternalRemove

SpecStore == InitStore /\ [][NextStore]_vars

(***************************************************************************)
(* SpecRunAndStore: the behaviours of Spec and those of SpecStore, for     *)
(* what is said of the Manager's methods and of the capture run's use of   *)
(* them at once.                                                           *)
(***************************************************************************)
InitRunAndStore == Init \/ InitStore

NextRunAndStore == Next \/ NextStore

SpecRunAndStore == InitRunAndStore /\ [][NextRunAndStore]_vars

(***************************************************************************)
(* SpecParse: ParsePlaylist applied to a playlist document.                *)
(***************************************************************************)
\* largest number of lines of a document handed to ParsePlaylist
MaxDocLines == 4

\* the lines of the documents handed to ParsePlaylist
ParseLines ==
    {MediaSeqLine(n) : n \in 1..MaxSeq}
      \cup {RefLine("a", t) : t \in {0, MaxSeq}}
      \cup {RefLine("a", None), BadRefLine, HugeRefLine}
      \cup {OddRefLine("b", 1, None), OddRefLine("b", 0, 1)}
      \cup {ExtInfLine(1), CommentLine, BlankLine}
      \cup {MediaSeqInRefLine("c", 2)}

\* the documents of n lines handed to ParsePlaylist
ParseDocsOfLen(n) == [1..n -> ParseLines]

InitParse ==
    /\ entry = "none"
    /\ pc = "parse"
    /\ segmentCount = 0
    /\ startSequence = None
    /\ targetSequence = None
    /\ currentSeq = None
    /\ retryCount = 0
    /\ segment = NilSegment
    /\ downloadedSequences = <<>>
    /\ ctxDone = FALSE
    /\ result = "running"
    /\ segments = NewManager.segments
    /\ files = NewManager.files
    /\ tempDir = NewManager.dir
    /\ output = [exists |-> FALSE, data |-> <<>>, open |-> FALSE]
    /\ firstHighest = None
    /\ lastPoll = NoPoll
    /\ segRequests = <<>>
    /\ fetches = 0
    /\ failed = {}
    /\ lastOp = NoOp
    /\ calls = 0
    /\ disposals = 0
    /\ stagedOrder = <<>>
    /\ cancelledAt = "-"
    /\ stages = <<>>
    /\ lateRequests = NoLateRequests
    /\ \E n \in 0..MaxDocLines : playlistContent \in ParseDocsOfLen(n)
    /\ parsed = NotParsed
    /\ mu = Unlocked
    /\ th = [t \in Threads |-> Idle]
    /\ mapWrite = NoMapWrite

\* segments, err := hls.ParsePlaylist(playlistContent, playlistURL)
Parse ==
    /\ pc = "parse"
    /\ ~parsed.called
    /\ LET r == ParsePlaylist(playlistContent)
       IN  parsed' = [err |-> r.err, segments |-> r.segments, called |-> TRUE]
    /\ UNCHANGED <<ctlVars, storeVars, histVars, concVars, playlistContent>>

NextParse == Parse

SpecParse == InitParse /\ [][NextParse]_vars

(***************************************************************************)
(* SpecConc: one Manager called by two goroutines at once.  Each method is *)
(* taken apart at its lock operations and its system calls, which is where *)
(* another goroutine can run in between (main.go:324-404).                 *)
(***************************************************************************)
\* number of Manager calls the two goroutines make between them
MaxConcCalls == 4

\* the descriptors handed to DownloadSegment
ConcSegments == {x \in StoreSegments : x.url.name = "a"}

\* bytes written at offset 0 of a file that holds old
Overlay(new, old) ==
    [i \in 1..(IF Len(new) > Len(old) THEN Len(new) ELSE Len(old)) |->
        IF i <= Len(new) THEN new[i] ELSE old[i]]

\* the goroutines other than t that hold m.mu, reading or writing
OtherHolders(t) == (mu.readers \cup {mu.writer}) \ {t, NoThread}

\* another goroutine is at a statement that reads or writes m.segments
Racing(t) ==
    \E u \in Threads \ {t} : th[u].pc \in {"check", "delete", "read", "store", "dispose"}

\* the goroutines whose open file was the one at path, after the path is
\* removed: their writes no longer reach a file of the directory
Detach(path) ==
    [u \in Threads |->
        IF th[u].op = "download" /\ Filename(th[u].seg.sequence) = path
          THEN [th[u] EXCEPT !.attached = FALSE]
          ELSE th[u]]

\* the runtime's "fatal error: concurrent map read and map write" (or
\* "concurrent map writes"): the process is gone
Fatal ==
    [op |-> "fatal", pc |-> "-", seg |-> NilSegment, attached |-> FALSE,
     written |-> 0]

concFrame ==
    <<ctlVars, parseVars, output, firstHighest, lastPoll, segRequests, failed,
      lastOp, disposals, stagedOrder, cancelledAt, stages, lateRequests>>

InitConc ==
    /\ entry = "none"
    /\ pc = "conc"
    /\ segmentCount = 0
    /\ startSequence = None
    /\ targetSequence = None
    /\ currentSeq = None
    /\ retryCount = 0
    /\ segment = NilSegment
    /\ downloadedSequences = <<>>
    /\ ctxDone = FALSE
    /\ result = "running"
    /\ segments = NewManager.segments
    /\ files = NewManager.files
    /\ tempDir = NewManager.dir
    /\ output = [exists |-> FALSE, data |-> <<>>, open |-> FALSE]
    /\ firstHighest = None
    /\ lastPoll = NoPoll
    /\ segRequests = <<>>
    /\ fetches = 0
    /\ failed = {}
    /\ lastOp = NoOp
    /\ calls = 0
    /\ disposals = 0
    /\ stagedOrder = <<>>
    /\ cancelledAt = "-"
    /\ stages = <<>>
    /\ lateRequests = NoLateRequests
    /\ playlistContent = <<>>
    /\ parsed = NotParsed
    /\ mu = Unlocked
    /\ th = [t \in Threads |-> Idle]
    /\ mapWrite = NoMapWrite

\* main.go:324-325: DownloadSegment is called and m.mu.RLock() returns
DownloadRLock(t) ==
    /\ pc = "conc" /\ th[t].op = "idle" /\ calls < MaxConcCalls
    /\ mu.writer = NoThread
    /\ \E seg \in ConcSegments :
         th' = [th EXCEPT ![t] = [op |-> "download", pc |-> "check", seg |-> seg,
                                  attached |-> FALSE, written |-> 0]]
    /\ mu' = [mu EXCEPT !.readers = @ \cup {t}]
    /\ calls' = calls + 1
    /\ UNCHANGED <<concFrame, segments, files, tempDir, fetches, mapWrite>>

\* the read lock kept until the call returns
DownloadCheck_KeepsRLock(t) ==
    /\ pc = "conc" /\ th[t].op = "download" /\ th[t].pc = "check"
    /\ LET seq == th[t].seg.sequence
           exists == seq \in DOMAIN segments
       IN  IF exists /\ StatOK(M, segments[seq])
             THEN /\ th' = [th EXCEPT ![t] = Idle]
                  /\ mu' = [mu EXCEPT !.readers = @ \ {t}]
           ELSE IF exists
             THEN /\ th' = [th EXCEPT ![t].pc = "delete"]
                  /\ mu' = mu
           ELSE /\ th' = [th EXCEPT ![t].pc = "create"]
                /\ mu' = mu
    /\ UNCHANGED <<concFrame, segments, files, tempDir, fetches, calls, mapWrite>>

\* main.go:326-335: the map lookup and os.Stat.  With an entry whose file
\* exists the call unlocks and returns; with an entry whose file is gone it
\* goes on to the delete, still holding the read lock; without an entry it
\* unlocks.
DownloadCheck(t) ==
    /\ pc = "conc" /\ th[t].op = "download" /\ th[t].pc = "check"
    /\ LET seq == th[t].seg.sequence
           exists == seq \in DOMAIN segments
       IN  IF exists /\ StatOK(M, segments[seq])
             THEN /\ th' = [th EXCEPT ![t] = Idle]
                  /\ mu' = [mu EXCEPT !.readers = @ \ {t}]
           ELSE IF exists
             THEN /\ th' = [th EXCEPT ![t].pc = "delete"]
                  /\ mu' = mu
           ELSE /\ th' = [th EXCEPT ![t].pc = "create"]
                /\ mu' = [mu EXCEPT !.readers = @ \ {t}]
    /\ UNCHANGED <<concFrame, segments, files, tempDir, fetches, calls, mapWrite>>

\* main.go:333-335: delete(m.segments, segment.Sequence), then
\* m.mu.RUnlock().  The delete is a map write made under the read lock:
\* with another goroutine at a statement that uses the map it is a data
\* race, which the runtime may or may not answer with a fatal error.
DownloadDelete(t) ==
    /\ pc = "conc" /\ th[t].op = "download" /\ th[t].pc = "delete"
    /\ mapWrite' = [n |-> mapWrite.n + 1, by |-> t, how |-> "delete"]
    /\ \/ /\ segments' = MapDel(segments, th[t].seg.sequence)
          /\ th' = [th EXCEPT ![t].pc = "create"]
          /\ mu' = [mu EXCEPT !.readers = @ \ {t}]
       \/ /\ Racing(t)
          /\ th' = [u \in Threads |-> Fatal]
          /\ UNCHANGED <<segments, mu>>
    /\ UNCHANGED <<concFrame, files, tempDir, fetches, calls>>

\* main.go:338-343: os.Create(filename) creates the file or truncates the
\* one that is there
DownloadCreate(t) ==
    /\ pc = "conc" /\ th[t].op = "download" /\ th[t].pc = "create"
    /\ \E ok \in BOOLEAN :
         IF tempDir /\ ok
           THEN /\ files' = MapPut(files, Filename(th[t].seg.sequence), <<>>)
                /\ th' = [th EXCEPT ![t].pc = "fetch", ![t].attached = TRUE]
           ELSE /\ th' = [th EXCEPT ![t] = Idle]
                /\ files' = files
    /\ UNCHANGED <<concFrame, segments, tempDir, fetches, calls, mu, mapWrite>>

\* main.go:346: m.fetcher.FetchSegment(segment.URL, file), no lock held
DownloadFetch(t) ==
    /\ pc = "conc" /\ th[t].op = "download" /\ th[t].pc = "fetch"
    /\ \E o \in NetOutcomes :
         LET f == FetchSegment(th[t].seg.url, o)
             filename == Filename(th[t].seg.sequence)
         IN  /\ files' = IF th[t].attached /\ filename \in DOMAIN files
                           THEN MapPut(files, filename, Overlay(f.data, files[filename]))
                           ELSE files
             /\ th' = [th EXCEPT ![t].pc = IF f.err THEN "remove" ELSE "lock",
                                  ![t].written = Len(f.data)]
    /\ fetches' = fetches + 1
    /\ UNCHANGED <<concFrame, segments, tempDir, calls, mu, mapWrite>>

\* main.go:347-348: os.Remove(filename) after a failed fetch, and the
\* return of the error
DownloadRemove(t) ==
    /\ pc = "conc" /\ th[t].op = "download" /\ th[t].pc = "remove"
    /\ LET filename == Filename(th[t].seg.sequence)
       IN  /\ files' = RemoveOnError(files, filename)
           /\ th' = [Detach(filename) EXCEPT ![t] = Idle]
    /\ UNCHANGED <<concFrame, segments, tempDir, fetches, calls, mu, mapWrite>>

\* main.go:352: m.mu.Lock() returns
DownloadLock(t) ==
    /\ pc = "conc" /\ th[t].op = "download" /\ th[t].pc = "lock"
    /\ mu = Unlocked
    /\ mu' = [mu EXCEPT !.writer = t]
    /\ th' = [th EXCEPT ![t].pc = "store"]
    /\ UNCHANGED <<concFrame, segments, files, tempDir, fetches, calls, mapWrite>>

\* main.go:353-356: m.segments[segment.Sequence] = filename, m.mu.Unlock()
\* and the return of the path
DownloadStore(t) ==
    /\ pc = "conc" /\ th[t].op = "download" /\ th[t].pc = "store"
    /\ segments' = MapPut(segments, th[t].seg.sequence, Filename(th[t].seg.sequence))
    /\ mapWrite' = [n |-> mapWrite.n + 1, by |-> t, how |-> "insert"]
    /\ mu' = [mu EXCEPT !.writer = NoThread]
    /\ th' = [th EXCEPT ![t] = Idle]
    /\ UNCHANGED <<concFrame, files, tempDir, fetches, calls>>

\* main.go:360-362: GetSegmentPath is called and m.mu.RLock() returns
GetRLock(t) ==
    /\ pc = "conc" /\ th[t].op = "idle" /\ calls < MaxConcCalls
    /\ mu.writer = NoThread
    /\ \E seg \in ConcSegments :
         th' = [th EXCEPT ![t] = [op |-> "get", pc |-> "read", seg |-> seg,
                                  attached |-> FALSE, written |-> 0]]
    /\ mu' = [mu EXCEPT !.readers = @ \cup {t}]
    /\ calls' = calls + 1
    /\ UNCHANGED <<concFrame, segments, files, tempDir, fetches, mapWrite>>

\* main.go:363-364: the map lookup, the deferred m.mu.RUnlock(), the return
GetRead(t) ==
    /\ pc = "conc" /\ th[t].op = "get" /\ th[t].pc = "read"
    /\ mu' = [mu EXCEPT !.readers = @ \ {t}]
    /\ th' = [th EXCEPT ![t] = Idle]
    /\ UNCHANGED <<concFrame, segments, files, tempDir, fetches, calls, mapWrite>>

\* main.go:394-395: Cleanup is called and m.mu.Lock() returns
CleanupLock(t) ==
    /\ pc = "conc" /\ th[t].op = "idle" /\ calls < MaxConcCalls
    /\ mu = Unlocked
    /\ mu' = [mu EXCEPT !.writer = t]
    /\ th' = [th EXCEPT ![t] = [op |-> "cleanup", pc |-> "dispose", seg |-> NilSegment,
                                attached |-> FALSE, written |-> 0]]
    /\ calls' = calls + 1
    /\ UNCHANGED <<concFrame, segments, files, tempDir, fetches, mapWrite>>

\* main.go:398-403: the files removed, the map replaced by a new one, the
\* directory removed with what it holds, the deferred m.mu.Unlock()
CleanupDispose(t) ==
    /\ pc = "conc" /\ th[t].op = "cleanup" /\ th[t].pc = "dispose"
    /\ SetManager(Cleanup(M))
    /\ mapWrite' = [n |-> mapWrite.n + 1, by |-> t, how |-> "reset"]
    /\ mu' = [mu EXCEPT !.writer = NoThread]
    /\ th' = [u \in Threads |->
                IF u = t THEN Idle ELSE [th[u] EXCEPT !.attached = FALSE]]
    /\ UNCHANGED <<concFrame, fetches, calls>>

NextConc ==
    \E t \in Threads :
        \/ DownloadRLock(t)
        \/ DownloadCheck(t)
        \/ DownloadDelete(t)
        \/ DownloadCreate(t)
        \/ DownloadFetch(t)
        \/ DownloadRemove(t)
        \/ DownloadLock(t)
        \/ DownloadStore(t)
        \/ GetRLock(t)
        \/ GetRead(t)
        \/ CleanupLock(t)
        \/ CleanupDispose(t)

SpecConc == InitConc /\ [][NextConc]_vars

(***************************************************************************)
(* Claims.                                                                 *)
(***************************************************************************)
Range(list) == {list[i] : i \in 1..Len(list)}

StrictlyIncreasing(list) == \A i \in 1..(Len(list) - 1) : list[i] < list[i + 1]

\* the members of a set of numbers, smallest first
RECURSIVE Ascending(_)
Ascending(S) ==
    IF S = {}
      THEN <<>>
      ELSE LET least == CHOOSE x \in S : \A y \in S : x <= y
           IN  <<least>> \o Ascending(S \ {least})

RECURSIVE Flatten(_)
Flatten(ss) == IF ss = <<>> THEN <<>> ELSE ss[1] \o Flatten(Tail(ss))

\* the bytes staged for a sequence number (none when nothing is staged)
BytesOf(s) ==
    IF s \in DOMAIN segments /\ segments[s] \in DOMAIN files
      THEN files[segments[s]]
      ELSE <<>>

\* the bytes staged for the sequences of a list, in the order of the list
StagedBytes(list) == Flatten([i \in 1..Len(list) |-> BytesOf(list[i])])

\* downloadedSequences exists: make([]int, 0, segmentCount) has returned
ListMade ==
    \/ pc \in {"loop", "poll", "fetch", "stage", "merge", "post"}
    \/ pc = "done" /\ result \in {"ok", "cancelled", "mkdir_error", "merge_error",
                                  "panic_nil", "audio_error", "subtitle_error"}

\* the step is the MergeSegments call of a capture run, returning no error:
\* the run is neither cancelled nor failed
RunSucceeds == pc = "merge" /\ lastOp'.op = "merge" /\ lastOp'.err = ""

MergeReturns ==
    /\ pc = "store"
    /\ lastOp'.op = "merge" /\ lastOp'.at = calls' /\ calls' = calls + 1
    /\ lastOp'.err = ""

\* C2: whatever the order the segments were staged in, MergeSegments writes
\* the staged bytes in the order of the list it is given, so a list in
\* ascending order gives the bytes in ascending order of sequence number.
C2_MergeFollowsTheList ==
    [][MergeReturns =>
         /\ output'.data = StagedBytes(lastOp'.list)
         /\ StrictlyIncreasing(lastOp'.list) =>
              output'.data = StagedBytes(Ascending(Range(lastOp'.list)))]_vars

\* two segments staged highest first and merged lowest first
C2_Witness ==
    /\ pc = "store"
    /\ Len(stagedOrder) = 2 /\ stagedOrder[1] > stagedOrder[2]
    /\ lastOp.op = "merge" /\ lastOp.err = "" /\ lastOp.at = calls
    /\ lastOp.list = <<stagedOrder[2], stagedOrder[1]>>
    /\ output.data = StagedBytes(lastOp.list)
    /\ Len(output.data) = 2 * PayloadLen

\* C3: downloadedSequences is strictly increasing, grows only by an append at
\* its end, holds only sequence numbers of the window, and is never longer
\* than the segment count.
C3_DownloadedSequences ==
    /\ [](ListMade =>
            /\ StrictlyIncreasing(downloadedSequences)
            /\ \A s \in Range(downloadedSequences) :
                 startSequence <= s /\ s <= targetSequence
            /\ Len(downloadedSequences) <= segmentCount)
    /\ [][\/ downloadedSequences' = downloadedSequences
          \/ \E s \in SeqRange :
               downloadedSequences' = Append(downloadedSequences, s)]_vars

\* the list filled the whole window
C3_Witness ==
    /\ pc = "merge"
    /\ segmentCount >= 2
    /\ Len(downloadedSequences) = segmentCount

\* the window is computed
Windowed == pc # "init" /\ result \notin {"fetch_error", "parse_error", "no_segments"}

\* C4: startSequence is the highest sequence number of the first snapshot,
\* targetSequence is startSequence + segmentCount - 1, neither changes once
\* computed, and DownloadSegment is only called for sequence numbers of the
\* window.
C4_WindowIsFixed ==
    /\ [](Windowed =>
            /\ startSequence = firstHighest
            /\ targetSequence = startSequence + segmentCount - 1
            /\ \A s \in Range(segRequests) :
                 startSequence <= s /\ s <= targetSequence)
    /\ [][Windowed =>
            startSequence' = startSequence /\ targetSequence' = targetSequence]_vars

\* the last sequence of the window is found in a snapshot whose highest
\* sequence number lies beyond the window
C4_Witness ==
    /\ pc = "stage"
    /\ segmentCount >= 2
    /\ segment.sequence = targetSequence
    /\ lastPoll.last > targetSequence

\* the step is a DownloadSegment call of SpecStore
DownloadStep ==
    /\ pc = "store"
    /\ lastOp'.op = "download" /\ lastOp'.at = calls' /\ calls' = calls + 1

\* the call before this step was a DownloadSegment that fetched and staged
\* lastOp.seq, and its file is still there
JustStaged ==
    /\ lastOp.op = "download" /\ lastOp.at = calls
    /\ lastOp.err = "" /\ lastOp.fetched = 1
    /\ lastOp.path \in DOMAIN files

\* C5: a second DownloadSegment for the sequence just staged, its file still
\* present, makes no network request (one in total for the two calls),
\* returns the same path, creates or truncates no file and leaves m.segments
\* as it was.
C5_SecondRetrieveIsNoOp ==
    [][(JustStaged /\ DownloadStep /\ lastOp'.seq = lastOp.seq) =>
         /\ lastOp'.fetched = 0
         /\ lastOp.fetched + lastOp'.fetched = 1
         /\ fetches' = fetches
         /\ lastOp'.err = ""
         /\ lastOp'.path = lastOp.path
         /\ files' = files
         /\ segments' = segments]_vars

\* two calls for one sequence, the second answered from the map
C5_Witness ==
    /\ pc = "store"
    /\ calls = 2 /\ fetches = 1
    /\ lastOp.op = "download" /\ lastOp.at = 2
    /\ lastOp.err = "" /\ lastOp.fetched = 0
    /\ lastOp.seq \in DOMAIN segments /\ lastOp.path = segments[lastOp.seq]

Last(list) == list[Len(list)]

\* the step hands a sequence to DownloadSegment
RequestStep == pc = "stage" /\ segRequests' # segRequests

\* C6: a capture run hands sequence numbers to DownloadSegment one per step,
\* in strictly ascending order, hence none twice, and never one that is
\* already staged; each call makes at most one network request.
C6_RetrievalsAscendOnce ==
    /\ [](/\ StrictlyIncreasing(segRequests)
          /\ fetches <= Len(segRequests)
          /\ Range(stagedOrder) \subseteq Range(segRequests))
    /\ [][RequestStep =>
            /\ Len(segRequests') = Len(segRequests) + 1
            /\ Last(segRequests') = currentSeq
            /\ Last(segRequests') \notin DOMAIN segments
            /\ fetches' <= fetches + 1]_vars

\* two sequences were requested, the first of them failed and was not
\* requested again
C6_Witness ==
    /\ pc = "loop"
    /\ Len(segRequests) = 2
    /\ segRequests[1] \in failed
    /\ fetches = 2

\* a file holds all the bytes of one segment of the origin
Complete(data) ==
    /\ Len(data) = PayloadLen
    /\ \A i \in 1..PayloadLen : data[i] = [u |-> data[1].u, i |-> i]

\* C7: a DownloadSegment whose fetch fails returns the error, leaves no file
\* for the sequence and registers no entry for it; every entry of m.segments
\* whose file exists points at a completely written file, and the staging
\* directory never holds a partly written file.
C7_NoIncompleteEntry ==
    /\ [](/\ \A s \in DOMAIN segments :
               segments[s] \in DOMAIN files => Complete(files[segments[s]])
          /\ \A p \in DOMAIN files : Complete(files[p]))
    /\ [][(DownloadStep /\ lastOp'.err = "error") =>
            /\ lastOp'.seq \notin DOMAIN segments'
            /\ Filename(lastOp'.seq) \notin DOMAIN files'
            /\ lastOp'.path = NoPath]_vars

\* a fetch failed after an earlier one had staged another sequence
C7_Witness ==
    /\ pc = "store"
    /\ lastOp.op = "download" /\ lastOp.err = "error" /\ lastOp.fetched = 1
    /\ lastOp.seq \notin DOMAIN segments
    /\ DOMAIN segments # {}

\* the step is a DownloadSegment of the capture run that returned an error
StagingFails ==
    /\ pc = "stage"
    /\ lastOp'.op = "download" /\ lastOp'.at = calls' /\ calls' = calls + 1
    /\ lastOp'.err = "error"

\* C8: when DownloadSegment fails for a sequence, the sequence is not
\* appended to downloadedSequences and not requested again, the loop goes on
\* with the next sequence, the run is not ended; the artifact of a run that
\* ends well holds the staged bytes of the other sequences only.
C8_FailedSegmentIsSkipped ==
    /\ [][StagingFails =>
            /\ downloadedSequences' = downloadedSequences
            /\ currentSeq' = currentSeq + 1
            /\ pc' = "loop"
            /\ result' = "running"]_vars
    /\ [](/\ failed \cap Range(downloadedSequences) = {}
          /\ \A s \in failed : Cardinality({i \in 1..Len(segRequests) :
                                               segRequests[i] = s}) = 1)
    /\ [][RunSucceeds =>
            /\ output'.data = StagedBytes(downloadedSequences)
            /\ \A s \in failed : BytesOf(s) = <<>>]_vars

\* a run ended well although the download of one sequence had failed
C8_Witness ==
    /\ pc = "done" /\ result = "ok"
    /\ failed # {}
    /\ Len(downloadedSequences) >= 1
    /\ Len(output.data) = PayloadLen * Len(downloadedSequences)
    /\ \E s \in failed : s < downloadedSequences[1]

\* the step is a poll that ended in a fetch or parse failure
PollFailsStep ==
    /\ pc = "fetch" /\ ctxDone' = ctxDone
    /\ lastPoll'.outcome \in {"fetchErr", "parseErr"}

\* C9: a playlist fetch or parse failure during polling does not end the
\* run and does not move to another sequence: the controller polls the same
\* sequence again, however many polls have failed before.
C9_PollFailureRetries ==
    /\ [][PollFailsStep =>
            /\ pc' = "poll"
            /\ currentSeq' = currentSeq
            /\ result' = "running"
            /\ downloadedSequences' = downloadedSequences]_vars
    /\ [](lastPoll.n > 0 => pc \in {"poll", "fetch"} \/ result = "cancelled")

\* MaxPolls polls in a row have failed and the controller polls once more
C9_Witness ==
    /\ pc = "fetch"
    /\ lastPoll.n = MaxPolls
    /\ result = "running"

\* the step is a poll whose snapshot does not hold the sequence waited for
PollAbsentStep ==
    /\ pc = "fetch" /\ ctxDone' = ctxDone
    /\ lastPoll'.outcome = "absent"

\* C10: when a snapshot fetched and parsed during polling holds no
\* descriptor for the sequence waited for (an empty snapshot included), the
\* controller polls again; the run neither fails nor ends.
C10_AbsentSegmentPollsAgain ==
    [][PollAbsentStep =>
         /\ pc' = "poll"
         /\ currentSeq' = currentSeq
         /\ result' = "running"]_vars

\* the run ended on its first playlist: the fetch failed, the parse failed,
\* or the snapshot held no segment
InitialFailure == result \in {"fetch_error", "parse_error", "no_segments"}

\* C11: when the first playlist cannot be fetched or parsed or its snapshot
\* holds no segment, the run ends at once with a fatal error: no poll, no
\* segment request, no staged entry, and the output path is left as it was.
\* Only a first snapshot with at least one segment lets the run go on.
C11_InitialFailureIsFatal ==
    /\ [][(pc = "init" /\ pc' # "init") =>
            /\ InitialFailure' \/ firstHighest' # None
            /\ InitialFailure' => pc' = "done" /\ output' = output]_vars
    /\ [](InitialFailure =>
            /\ pc = "done"
            /\ currentSeq = None /\ lastPoll = NoPoll
            /\ segRequests = <<>> /\ fetches = 0
            /\ segments = EmptyMap /\ files = EmptyMap
            /\ downloadedSequences = <<>>
            /\ output \in OutputFiles)
    /\ [][pc # "done"]_vars

\* the first snapshot was empty; the file at the output path is untouched
C11_Witness ==
    /\ pc = "done" /\ result = "no_segments"
    /\ output = [exists |-> TRUE, data |-> OldData, open |-> FALSE]

\* the step is one of the two checks of the context, at the head of the loop
\* over the window or at the head of the polling loop, made after cancel()
ObservesCancel ==
    /\ ctxDone
    /\ pc' # pc
    /\ \/ pc = "poll"
       \/ pc = "loop" /\ currentSeq <= targetSequence

\* C12: the context is checked before every new sequence and at the top of
\* every polling iteration; a check that finds it cancelled ends the run
\* with no further playlist or segment request, no merge and no error.
C12_CancellationIsObserved ==
    /\ [][ObservesCancel =>
            /\ pc' = "done" /\ result' = "cancelled"
            /\ fetches' = fetches /\ segRequests' = segRequests
            /\ lastPoll' = lastPoll
            /\ lastOp'.op = "cleanup"]_vars
    /\ [][(pc = "loop" /\ pc' = "poll") => ~ctxDone]_vars
    /\ [][(pc = "poll" /\ pc' = "fetch") => ~ctxDone]_vars
    /\ [][pc' = "fetch" => pc \in {"poll", "fetch"}]_vars

\* a run cancelled while it polled for its second sequence
C12_Witness ==
    /\ pc = "done" /\ result = "cancelled"
    /\ lastPoll.outcome = "absent"
    /\ Len(segRequests) >= 1

\* C13: once cancel() was called while the controller waits for a sequence,
\* the run sends no further request: it starts no playlist fetch and no
\* segment fetch.
C13_NoRequestAfterCancel ==
    [][(cancelledAt \in {"poll", "fetch"}) =>
         /\ fetches' = fetches
         /\ ~(pc = "poll" /\ pc' = "fetch")]_vars

\* C14: a run that ends on a cancelled context leaves the output path as it
\* was, not created, not truncated, not written, however many segments it
\* has staged; MergeSegments is not called.
C14_CancelledRunLeavesNoArtifact ==
    /\ [][ObservesCancel => result' = "cancelled"]_vars
    /\ [][result' = "cancelled" => output' = output]_vars
    /\ [](result = "cancelled" =>
            /\ pc = "done"
            /\ output \in OutputFiles
            /\ lastOp.op # "merge")

\* a cancelled run that had staged a segment; nothing is at the output path
C14_Witness ==
    /\ pc = "done" /\ result = "cancelled"
    /\ Len(downloadedSequences) >= 1
    /\ ~output.exists

\* C15: however a capture run ends, Cleanup has run by then: no entry, no
\* staged file and no staging directory is left.
C15_DisposalOnEveryPath ==
    pc = "done" =>
        /\ disposals >= 1
        /\ segments = EmptyMap /\ files = EmptyMap /\ ~tempDir

\* the step is a Cleanup call of SpecStore
CleanupStep == pc = "store" /\ disposals' = disposals + 1

\* nothing is staged and the staging directory is gone
Disposed == segments = EmptyMap /\ files = EmptyMap /\ ~tempDir

\* C16: after a Cleanup call the map is empty and neither a staged file nor
\* the staging directory exists; a later Cleanup call returns no error and
\* leaves that state as it is.
C16_CleanupIsIdempotent ==
    [][CleanupStep =>
         /\ Disposed'
         /\ lastOp'.op = "cleanup" /\ lastOp'.err = ""
         /\ Disposed => UNCHANGED storeVars]_vars

\* a segment was staged, then Cleanup was called twice
C16_Witness ==
    /\ pc = "store"
    /\ calls = 3 /\ disposals = 2
    /\ Len(stagedOrder) = 1
    /\ lastOp.op = "cleanup" /\ lastOp.at = 3
    /\ Disposed

\* the step is a MergeSegments call made through the Manager's interface
MergeStep ==
    /\ pc = "store"
    /\ lastOp'.op = "merge" /\ lastOp'.at = calls' /\ calls' = calls + 1

\* the step is the MergeSegments call of a capture run
RunMergeStep == pc = "merge" /\ lastOp'.op = "merge" /\ lastOp'.at = calls'

\* the positions of a list whose sequence number has no entry in m.segments
MissingAt(list) == {i \in 1..Len(list) : list[i] \notin DOMAIN segments}

FirstMissing(list) == CHOOSE i \in MissingAt(list) : \A j \in MissingAt(list) : i <= j

\* what a failed copy of the file staged for s can have written
PartsOf(s) == {SubSeq(BytesOf(s), 1, k) : k \in {0} \cup 0..(Len(BytesOf(s)) - 1)}

\* C17 as stated: MergeSegments returns the missing-segment error whenever
\* its list holds a sequence number without an entry in m.segments.
C17_MissingSegmentWhenever ==
    [][(MergeStep /\ MissingAt(lastOp'.list) # {}) => lastOp'.err = "missing"]_vars

\* C17 amended: MergeSegments fails whenever its list holds a sequence
\* number without an entry, with the missing-segment error once the output
\* file was created and the sequences before the first such one were
\* copied, else with the error of the creation or of the copy that failed
\* before; it reports a missing segment only for such a list.  A capture
\* run ends with a fatal error on any error of MergeSegments and never
\* meets the missing-segment error: every sequence of downloadedSequences
\* has its entry when the merge starts.
C17_MissingSegmentUnlessEarlierFailure ==
    /\ [][(MergeStep /\ MissingAt(lastOp'.list) # {}) =>
            LET l == lastOp'.list
                f == FirstMissing(l)
            IN  \/ /\ lastOp'.err = "missing"
                   /\ output' = [exists |-> TRUE,
                                 data |-> StagedBytes(SubSeq(l, 1, f - 1)),
                                 open |-> FALSE]
                \/ /\ lastOp'.err = "create"
                   /\ output' = output
                \/ /\ lastOp'.err \in {"copy", "open"}
                   /\ \E j \in 1..(f - 1) : \E part \in PartsOf(l[j]) :
                        output'.data = StagedBytes(SubSeq(l, 1, j - 1)) \o part]_vars
    /\ [][(MergeStep /\ lastOp'.err = "missing") => MissingAt(lastOp'.list) # {}]_vars
    /\ [](pc = "merge" => Range(downloadedSequences) \subseteq DOMAIN segments)
    /\ [][RunMergeStep =>
            /\ lastOp'.list = downloadedSequences
            /\ lastOp'.err # "missing"
            /\ lastOp'.err # "" => pc' = "done" /\ result' = "merge_error"]_vars

\* MergeSegments copied the first sequence of its list and found no entry
\* for the second
C17_Witness ==
    /\ pc = "store"
    /\ lastOp.op = "merge" /\ lastOp.at = calls /\ lastOp.err = "missing"
    /\ Len(lastOp.list) = 2
    /\ lastOp.list[1] \in DOMAIN segments
    /\ lastOp.list[2] \notin DOMAIN segments
    /\ Len(output.data) = PayloadLen

\* ParsePlaylist returned the segments of the document, no error
Accepted == pc = "parse" /\ parsed.called /\ ~parsed.err

\* the sequence numbers of the segments returned, in their order
Sequences == [i \in 1..Len(parsed.segments) |-> parsed.segments[i].sequence]

\* a line the parser takes for a segment reference
IsRef(line) ==
    line.mseq = None /\ line.inf = None /\ ~line.blank /\ ~line.hash

\* the positions of the references of a document, in document order
RefPositions(doc) ==
    LET at == {i \in 1..Len(doc) : IsRef(doc[i])}
    IN  Ascending(at)

\* no reference of the document matches _<digits>.ts
Unadorned(doc) ==
    \A i \in 1..Len(doc) :
        IsRef(doc[i]) => doc[i].tok = None /\ doc[i].tail = None

\* the positions of the starting-sequence declarations of a document
Declarations(doc) == {i \in 1..Len(doc) : doc[i].mseq # None}

\* every declaration comes before every reference
DeclaredFirst(doc) ==
    \A i \in Declarations(doc) : \A j \in 1..Len(doc) : IsRef(doc[j]) => i < j

NonDecreasing(list) == \A i \in 1..(Len(list) - 1) : list[i] <= list[i + 1]

\* every token of the document is the end of a final path component and
\* fits an int
WellFormedTokens(doc) ==
    \A i \in 1..Len(doc) : doc[i].tok = doc[i].tail /\ ~doc[i].tokErr

\* C18 as stated: the sequence numbers of the segments of every document
\* ParsePlaylist accepts are non-decreasing in document order, also with
\* _<digits>.ts file names and with more than one declaration.
C18_SequencesNonDecreasing ==
    (Accepted /\ WellFormedTokens(playlistContent)) => NonDecreasing(Sequences)

\* C18 amended: the sequence numbers are non-decreasing (they go up by one)
\* in document order for every accepted document in which no reference
\* matches _<digits>.ts and no declaration comes after a reference, also
\* with more than one declaration.
C18_UnadornedSequencesIncrease ==
    (Accepted /\ Unadorned(playlistContent) /\ DeclaredFirst(playlistContent)) =>
        /\ NonDecreasing(Sequences)
        /\ \A i \in 1..(Len(Sequences) - 1) : Sequences[i + 1] = Sequences[i] + 1

\* two declarations, then two references
C18_Witness ==
    /\ Accepted
    /\ Len(playlistContent) = 4
    /\ Declarations(playlistContent) = {1, 2}
    /\ playlistContent[1].mseq < playlistContent[2].mseq
    /\ Unadorned(playlistContent)
    /\ Sequences = <<playlistContent[2].mseq, playlistContent[2].mseq + 1>>

\* the declared starting sequence of a document with at most one
\* declaration, 0 without one
Declared(doc) ==
    IF Declarations(doc) = {}
      THEN 0
      ELSE doc[CHOOSE i \in Declarations(doc) : TRUE].mseq

\* C19: a document with one declaration S followed by n references that
\* match no _<digits>.ts gives n segments with the sequence numbers S, S+1,
\* ..., S+n-1 in document order; without a declaration S is 0.
C19_CounterFromDeclaration ==
    (/\ Accepted
     /\ Cardinality(Declarations(playlistContent)) <= 1
     /\ DeclaredFirst(playlistContent)
     /\ Unadorned(playlistContent)) =>
        /\ Len(Sequences) = Len(RefPositions(playlistContent))
        /\ \A i \in 1..Len(Sequences) :
             Sequences[i] = Declared(playlistContent) + i - 1

\* a declaration of MaxSeq and three references
C19_Witness ==
    /\ Accepted
    /\ Len(playlistContent) = 4
    /\ playlistContent[1].mseq = MaxSeq
    /\ Unadorned(playlistContent)
    /\ Sequences = <<MaxSeq, MaxSeq + 1, MaxSeq + 2>>

\* the running counter when line i of the document is read: the latest
\* declaration before it, or 0, plus the references since
RECURSIVE CounterAt(_, _)
CounterAt(doc, i) ==
    IF i = 1
      THEN 0
    ELSE IF doc[i - 1].mseq # None
      THEN doc[i - 1].mseq
    ELSE IF IsRef(doc[i - 1])
      THEN CounterAt(doc, i - 1) + 1
    ELSE CounterAt(doc, i - 1)

\* C20: a reference whose final path component ends in _<digits>.ts gets
\* the digits as its sequence number whatever the running counter is; any
\* other reference gets the value of the running counter.  (Digits that
\* do not fit an int cannot be a sequence number and are left aside.)
C20_TokenOfFinalComponent ==
    Accepted =>
        LET at == RefPositions(playlistContent)
        IN  /\ Len(Sequences) = Len(at)
            /\ \A k \in 1..Len(at) :
                 LET line == playlistContent[at[k]]
                 IN  \/ line.tokErr   \* the digits are no int
                     \/ Sequences[k] = IF line.tail # None
                                         THEN line.tail
                                         ELSE CounterAt(playlistContent, at[k])

\* the step invokes a post-processing stage
InvokesStage == stages' # stages

\* C22: a post-processing stage (ExtractAudio, then ExtractSubtitle) is
\* invoked only after MergeSegments returned without error in that run, and
\* when the first one is invoked the file at the output path exists, is
\* closed and holds all the bytes of the merge.
C22_PostProcessingAfterAssembly ==
    /\ [][InvokesStage =>
            /\ stages = <<>>
            /\ stages' \in {<<"audio">>, <<"audio", "subtitle">>}
            /\ lastOp.op = "merge" /\ lastOp.err = ""
            /\ lastOp.list = downloadedSequences
            /\ output.exists /\ ~output.open
            /\ output.data = StagedBytes(downloadedSequences)]_vars
    /\ [](stages # <<>> =>
            /\ entry = "executeCapture"
            /\ pc = "done"
            /\ result \in {"ok", "audio_error", "subtitle_error"})
    /\ [](result \in {"merge_error", "mkdir_error", "cancelled"} => stages = <<>>)

\* both extractions ran on the merge of two segments
C22_Witness ==
    /\ pc = "done" /\ result = "ok"
    /\ stages = <<"audio", "subtitle">>
    /\ Len(downloadedSequences) = 2
    /\ output.exists /\ Len(output.data) = 2 * PayloadLen

\* the step is a poll that got a snapshot: FindSegmentBySequence was called
LookupStep ==
    /\ pc = "fetch" /\ pc' # "fetch"
    /\ lastPoll'.outcome \in {"found", "absent"}

\* C23: when the stream has ended (the playlist polled carries
\* #EXT-X-ENDLIST) and the sequence waited for is not in it, the run stops
\* waiting for the sequence and terminates.
C23_EndOfStreamStopsWaiting ==
    [][(LookupStep /\ lastPoll'.outcome = "absent" /\ lastPoll'.ended) =>
         pc' = "done"]_vars

\* C24: a run starts from the highest sequence number of the first snapshot
\* and works backwards: the sequence numbers it hands to DownloadSegment are
\* that number, then the one before it, and so on.
C24_WorksBackwards ==
    Windowed =>
        \A i \in 1..Len(segRequests) : segRequests[i] = firstHighest - (i - 1)

\* C25: a run that reaches the merge has downloaded exactly as many
\* segments as were asked for.
C25_ExactCountAtAssembly ==
    pc = "merge" => Len(downloadedSequences) = segmentCount

\* C26: the merge is entered only when cancel() has not been called: the
\* loop over a window of at least one sequence never ends into the merge
\* with the context cancelled, also not when cancel() came during the last
\* download.
C26_NoAssemblyAfterCancel ==
    [][(pc = "loop" /\ pc' = "merge" /\ segmentCount >= 1) => ~ctxDone]_vars

\* the step is the DownloadSegment call for the segment found
RetrieveStep == pc = "stage" /\ pc' # "stage"

\* C27: FindSegmentBySequence returns the first segment of the snapshot, in
\* document order, that carries the sequence number, and nil exactly when
\* none does; the URL the run then hands to DownloadSegment, and whose bytes
\* are staged for the sequence, is that segment's.
C27_LookupBindsFirstMatch ==
    /\ [][LookupStep =>
            /\ (lastPoll'.outcome = "absent") <=> (lastPoll'.matches = <<>>)
            /\ lastPoll'.outcome = "found" =>
                  /\ pc' = "stage"
                  /\ segment'.sequence = currentSeq
                  /\ segment'.url = lastPoll'.matches[1]]_vars
    /\ [][RetrieveStep =>
            /\ lastPoll.outcome = "found"
            /\ segment.url = lastPoll.matches[1]
            /\ lastOp'.seq = currentSeq
            /\ fetches' = fetches + lastOp'.fetched /\ lastOp'.fetched <= 1
            /\ lastOp'.err = "" =>
                  files'[lastOp'.path] = Payload(lastPoll.matches[1])]_vars

\* the snapshot holds two segments of different URLs for the sequence
\* waited for; the one found is the first of them
C27_Witness ==
    /\ pc = "stage"
    /\ Len(lastPoll.matches) = 2
    /\ lastPoll.matches[1] # lastPoll.matches[2]
    /\ segment.url = lastPoll.matches[1]
    /\ Len(segRequests) >= 1

\* a line that is non-empty after trimming and does not begin with #
ReferenceLine(line) == ~line.blank /\ ~line.hash

\* the positions of such lines in a document, in document order
ReferencePositions(doc) == Ascending({i \in 1..Len(doc) : ReferenceLine(doc[i])})

ScanState(doc, n) ==
    ParseFrom(SubSeq(doc, 1, n), 1,
              [segments |-> <<>>, mediaSequence |-> 0, currentDuration |-> 0,
               err |-> FALSE])

\* the reference's _<digits>.ts match gives it its sequence number
Overridden(line) == line.tok # None /\ ~line.tokErr

\* C29: the running counter goes up by exactly one after each segment
\* reference, overridden by a file name token or not: the override changes
\* the sequence number of its own segment only, and a later reference
\* without a token gets the latest declaration (or 0) plus the number of
\* references since.
C29_CounterIgnoresOverride ==
    Accepted =>
        LET doc == playlistContent
            at == RefPositions(doc)
        IN  /\ Len(Sequences) = Len(at)
            /\ \A i \in 1..Len(doc) :
                 IsRef(doc[i]) =>
                     /\ ScanState(doc, i).mediaSequence
                            = ScanState(doc, i - 1).mediaSequence + 1
                     /\ ScanState(doc, i).mediaSequence = CounterAt(doc, i + 1)
            /\ \A k \in 1..Len(at) :
                 Sequences[k] = IF Overridden(doc[at[k]])
                                  THEN doc[at[k]].tok
                                  ELSE CounterAt(doc, at[k])

\* a declaration of 2, a reference overridden to 0, a reference without a
\* token: the last one gets 3
C29_Witness ==
    /\ Accepted
    /\ Len(playlistContent) = 3
    /\ playlistContent[1] = MediaSeqLine(2)
    /\ playlistContent[2] = RefLine("a", 0)
    /\ playlistContent[3] = RefLine("a", None)
    /\ Sequences = <<0, 3>>

\* a line that is empty or begins with # and holds neither directive
Ignored(line) == (line.blank \/ line.hash) /\ line.mseq = None /\ line.inf = None

\* the document without its line i
RemoveAt(doc, i) == SubSeq(doc, 1, i - 1) \o SubSeq(doc, i + 1, Len(doc))

\* C30: a line that is empty or begins with # and is neither a
\* starting-sequence nor a duration directive changes nothing: the scanner's
\* segments, counter and pending duration are after the line what they were
\* before it, and ParsePlaylist returns for the document what it returns for
\* the document without the line.
C30_IgnoredLineChangesNothing ==
    (pc = "parse" /\ parsed.called) =>
        \A i \in 1..Len(playlistContent) :
            Ignored(playlistContent[i]) =>
                LET without == RemoveAt(playlistContent, i)
                IN  /\ ScanState(playlistContent, i) = ScanState(playlistContent, i - 1)
                    /\ ScanState(playlistContent, Len(playlistContent))
                           = ScanState(without, Len(without))
                    /\ ParsePlaylist(without)
                           = [err |-> parsed.err, segments |-> parsed.segments]

\* a duration, a comment line and a blank line, then the reference the
\* duration is for
C30_Witness ==
    /\ Accepted
    /\ Len(playlistContent) = 4
    /\ playlistContent[1] = ExtInfLine(1)
    /\ playlistContent[2] = CommentLine
    /\ playlistContent[3] = BlankLine
    /\ IsRef(playlistContent[4])
    /\ Len(parsed.segments) = 1
    /\ parsed.segments[1].duration = 1

\* the step executes a statement that writes m.segments
MapWritten == mapWrite'.n # mapWrite.n

\* C21: every statement that writes m.segments (the insertion after a
\* download, the removal of an entry whose file is gone, the new map of
\* Cleanup) is executed by a goroutine that holds m.mu for writing, with no
\* other goroutine holding it.
C21_MapWritesHoldTheLock ==
    [][MapWritten =>
         /\ mu.writer = mapWrite'.by
         /\ OtherHolders(mapWrite'.by) = {}]_vars

\* no line of the document is taken for a segment reference
NoReference(doc) == \A i \in 1..Len(doc) : ~IsRef(doc[i])

Holds(t) == t \in mu.readers \/ mu.writer = t

\* C32: DownloadSegment holds no lock on m.segments from os.Create until
\* FetchSegment has returned, and a sequence gets an entry in m.segments
\* only through a call for that sequence whose FetchSegment has returned
\* without error after writing all the bytes of the segment.
C32_FetchOutsideTheLock ==
    /\ [](\A t \in Threads :
            th[t].pc \in {"create", "fetch", "remove", "lock"} => ~Holds(t))
    /\ [][\A t \in Threads :
            (th[t].pc = "fetch" /\ th'[t].pc # "fetch") =>
                ~Holds(t) /\ (~Holds(t))' /\ segments' = segments]_vars
    /\ [][\A s \in DOMAIN segments' :
            (s \notin DOMAIN segments \/ segments'[s] # segments[s]) =>
                LET t == mapWrite'.by
                IN  /\ MapWritten /\ mapWrite'.how = "insert"
                    /\ th[t].op = "download" /\ th[t].pc = "store"
                    /\ th[t].seg.sequence = s
                    /\ th[t].written = PayloadLen
                    /\ segments'[s] = Filename(s)]_vars
    /\ [](\A t \in Threads :
            th[t].pc \in {"lock", "store"} => th[t].written = PayloadLen)

\* one goroutine is in its fetch, holding no lock, while the other holds the
\* write lock to register the segment whose fetch it has completed
C32_Witness ==
    \E t, u \in Threads :
        /\ th[t].pc = "fetch" /\ ~Holds(t)
        /\ th[u].pc = "store" /\ mu.writer = u
        /\ th[u].written = PayloadLen

\* m.segments holds an entry for s whose file is gone
Stale(s) == s \in DOMAIN segments /\ segments[s] \notin DOMAIN files

\* C33: DownloadSegment for a sequence whose entry is in m.segments while
\* its file is gone does not return the path of the entry without a fetch:
\* it removes the entry and, os.Create permitting, fetches the segment
\* again; the sequence has an entry afterwards exactly when that fetch
\* succeeded, and then the entry's file holds the bytes fetched.
C33_StaleEntryIsRefetched ==
    [][(DownloadStep /\ Stale(lastOp'.seq)) =>
         LET s == lastOp'.seq
         IN  /\ lastOp'.err = "" =>
                   /\ lastOp'.fetched = 1 /\ fetches' = fetches + 1
                   /\ s \in DOMAIN segments' /\ segments'[s] = lastOp'.path
                   /\ lastOp'.path \in DOMAIN files'
                   /\ Complete(files'[lastOp'.path])
             /\ lastOp'.err = "error" =>
                   /\ s \notin DOMAIN segments'
                   /\ lastOp'.path = NoPath
                   /\ Filename(s) \notin DOMAIN files'
             /\ (s \in DOMAIN segments') <=> (lastOp'.err = "" /\ lastOp'.fetched = 1)
             /\ \A q \in DOMAIN segments \ {s} :
                   q \in DOMAIN segments' /\ segments'[q] = segments[q]]_vars

\* a sequence was staged, its file removed, and the fetch of the
\* DownloadSegment that followed failed: the sequence has no entry
C33_Witness ==
    /\ pc = "store" /\ calls = 3 /\ disposals = 0
    /\ stagedOrder = <<lastOp.seq>>
    /\ lastOp.op = "download" /\ lastOp.at = 3
    /\ lastOp.err = "error" /\ lastOp.fetched = 1
    /\ lastOp.seq \notin DOMAIN segments

\* the run is in the loop over the window
InLoop == pc \in {"loop", "poll", "fetch", "stage"}

\* once cancel() was called, the run makes at most one playlist request and
\* at most one segment request
AtMostOneLateRequest ==
    [](lateRequests.playlist <= 1 /\ lateRequests.segment <= 1)

\* a cancel() called while the run is in the loop is observed by one of the
\* two selects, unless the loop ends first
CancelIsObservedInTheLoop ==
    (ctxDone /\ InLoop) ~> (result = "cancelled" \/ pc = "merge")

\* C34: after cancel() the run starts at most one more playlist request and
\* at most one more segment request before it observes the cancellation and
\* ends; with every network call and every sleep returning, a cancellation
\* that comes while the run is in the loop over the window is always
\* observed, unless the loop ends first.
C34_CancellationLatencyIsBounded ==
    AtMostOneLateRequest /\ CancelIsObservedInTheLoop

\* the controller polls for sequence s
Polling(s) == pc \in {"poll", "fetch"} /\ currentSeq = s

\* the sequence numbers of the window, lowest first
WindowSequences == [i \in 1..segmentCount |-> startSequence + i - 1]

\* the run is not cancelled and whenever it polls for a sequence it gets, in
\* the end, a snapshot that holds the sequence
EverySequenceAppears ==
    /\ [](~ctxDone)
    /\ [](pc = "fetch" => <>(pc = "stage"))

\* such a run hands every sequence of the window to DownloadSegment once,
\* lowest first, and ends
VisitsTheWindowAndEnds ==
    EverySequenceAppears =>
        <>(/\ pc = "done"
           /\ result # "panic_nil"
           /\ ListMade => segRequests = WindowSequences)

\* a poll that does not find the sequence is followed by another poll for
\* the same sequence: the sequence is never given up
NeverSkips ==
    [][(pc \in {"poll", "fetch"} /\ ~ctxDone) =>
          \/ Polling(currentSeq)'
          \/ pc' = "stage" /\ currentSeq' = currentSeq
                           /\ segment'.sequence = currentSeq]_vars

\* C35: a run that is not cancelled, whose network calls return and in which
\* every sequence of the window comes to be in a snapshot fetched while the
\* run polls for it, visits every sequence of the window once, in ascending
\* order, and ends; while a sequence is in no snapshot fetched, the run goes
\* on polling for that sequence and never skips it.
C35_PollsUntilPresent ==
    VisitsTheWindowAndEnds /\ NeverSkips

\* goroutines t and u are both in the network fetch of one sequence
BothFetch(t, u) ==
    /\ t # u
    /\ th[t].op = "download" /\ th[t].pc = "fetch"
    /\ th[u].op = "download" /\ th[u].pc = "fetch"
    /\ th[t].seg.sequence = th[u].seg.sequence

\* no Manager call is under way
AllReturned == \A t \in Threads : th[t] = Idle

\* C36: of two DownloadSegment calls for one sequence that run at the same
\* time at most one fetches the segment, and once both have returned (no
\* Cleanup having run) every entry of m.segments points at a file that
\* exists and holds the whole segment: a call that fails neither removes
\* nor truncates the file a call that succeeded has registered.
C36_ConcurrentRetrieveFetchesOnce ==
    /\ \A t, u \in Threads : ~BothFetch(t, u)
    /\ (pc = "conc" /\ AllReturned /\ tempDir) =>
           \A s \in DOMAIN segments :
               /\ segments[s] \in DOMAIN files
               /\ Complete(files[segments[s]])

\* C37: when Cleanup runs while a DownloadSegment call is under way, then
\* once both have returned m.segments is empty and no staged file is left:
\* a DownloadSegment that returns after Cleanup registers no entry for a
\* file that Cleanup has removed.
C37_NothingLeftAfterCleanup ==
    (pc = "conc" /\ AllReturned /\ ~tempDir) =>
        /\ segments = EmptyMap
        /\ files = EmptyMap
        /\ mapWrite.how # "insert"

\* the positions of a list whose sequence has no entry or an entry whose
\* file cannot be opened
UnusableAt(list) ==
    {i \in 1..Len(list) : list[i] \notin DOMAIN segments \/ Stale(list[i])}

FirstUnusable(list) ==
    CHOOSE i \in UnusableAt(list) : \A j \in UnusableAt(list) : i <= j

\* C38: MergeSegments creates or truncates the output file before it looks
\* up any sequence: when it fails at a position of its list because the
\* sequence has no entry or its file cannot be opened, the output file
\* exists, is closed and holds exactly the staged bytes of the sequences
\* before that position, none of what was at the path before.
C38_FailedMergeLeavesPrefix ==
    /\ [][(MergeStep /\ lastOp'.err \in {"missing", "open"}) =>
            LET l == lastOp'.list
                f == FirstUnusable(l)
            IN  /\ UnusableAt(l) # {}
                /\ (lastOp'.err = "missing") <=> (l[f] \notin DOMAIN segments)
                /\ output'.exists /\ ~output'.open
                /\ output'.data = StagedBytes(SubSeq(l, 1, f - 1))
                /\ Len(output'.data) = (f - 1) * PayloadLen
                /\ output \in OutputFiles => output' # output]_vars
    /\ [][(MergeStep /\ lastOp'.err # "create") =>
            /\ output'.exists
            /\ \A i \in 1..Len(output'.data) : output'.data[i] \notin Range(OldData)]_vars

\* a sequence was staged and its file removed; MergeSegments, called with
\* the sequence, could not open the file and left an empty output file
C38_Witness ==
    /\ pc = "store"
    /\ lastOp.op = "merge" /\ lastOp.at = calls /\ lastOp.err = "open"
    /\ Len(lastOp.list) = 1
    /\ Stale(lastOp.list[1])
    /\ stagedOrder = lastOp.list
    /\ output = [exists |-> TRUE, data |-> <<>>, open |-> FALSE]

\* the file MergeSegments leaves for an empty list
EmptyFile == [exists |-> TRUE, data |-> <<>>, open |-> FALSE]

\* with a count of zero or less the window is empty: the run goes from the
\* first snapshot to the loop, and from there to the merge with no poll and
\* no segment request
EmptyWindowReachesMerge ==
    /\ [][(pc = "init" /\ Windowed' /\ segmentCount <= 0) => pc' = "loop"]_vars
    /\ [][(pc = "loop" /\ segmentCount <= 0) => pc' \in {"loop", "merge"}]_vars
    /\ []((Windowed /\ segmentCount <= 0) =>
             /\ pc \notin {"poll", "fetch", "stage"}
             /\ lastPoll = NoPoll /\ segRequests = <<>> /\ fetches = 0)

\* a loop that ends with an empty list goes on to the merge, and the merge
\* of an empty list, its output file created, is an empty file and no error
EmptyListIsMerged ==
    /\ [][(pc = "loop" /\ pc' # "loop" /\ ~LoopContinues(currentSeq, targetSequence)
              /\ downloadedSequences = <<>>) => pc' = "merge"]_vars
    /\ [][(RunMergeStep /\ downloadedSequences = <<>>) =>
            /\ lastOp'.err \in {"", "create"}
            /\ lastOp'.err = "" =>
                  /\ output' = EmptyFile
                  /\ pc' = "post" \/ (pc' = "done" /\ result' = "ok")]_vars

\* C39: when downloadedSequences is empty at the end of the loop, because
\* every download of the window failed or because the count is zero or
\* negative (an empty window: no poll, no segment request), the run still
\* calls MergeSegments, which leaves an empty output file and returns no
\* error.
C39_EmptyListStillAssembles ==
    EmptyWindowReachesMerge /\ EmptyListIsMerged

====
